---- MODULE Spec2Model ----
(***************************************************************************)
(* A state-machine model of the ex_vrp local-search driver                 *)
(* (c_src/pyvrp/search/LocalSearch.cpp), of the working solution it owns   *)
(* (c_src/pyvrp/search/Solution.cpp) and of the parts of the engine they   *)
(* call (routes, cost evaluator, operators).                               *)
(*                                                                         *)
(* Locations are numbered as in ProblemData: depots 0..numDepots-1, then   *)
(* the clients.  A working route is kept as the sequence of its interior   *)
(* nodes (clients and reload depots); its start and end depot are implied  *)
(* by the vehicle type.  Node indices are those of Route::Node::idx():     *)
(* 0 is the start depot, k the k-th interior node, size()-1 the end depot. *)
(***************************************************************************)
EXTENDS Integers, Sequences, FiniteSets, TLC

(***************************************************************************)
(* Bounds of the model.                                                    *)
(***************************************************************************)
\* numUpdates_ is capped: the driver takes no step once it is reached.
MaxUpdates == 12
\* Number of public operations run on one driver.
MaxRuns == 2
\* Largest number of perturbation moves of one call.
MaxPerturbations == 1
\* Smallest number of perturbation moves: PerturbationParams(1, 25).
MinPerturbations == 1

(***************************************************************************)
(* Sentinels.                                                              *)
(***************************************************************************)
\* std::numeric_limits<Cost>::max(): the largest value of the integer type.
\* The integers here have 32 bits.
CostMax == 2^30 + (2^30 - 1)
\* std::numeric_limits<Duration>::max(), 2^63 - 1, is above every Duration
\* the integers here hold.  A field that may hold it, the shift duration of
\* a vehicle type or the end of a time window, is a sequence: <<d>> for the
\* Duration d and <<>> for max().
DurationMax == <<>>
Limit(d) == <<d>>
\* limit < std::numeric_limits<Duration>::max()
BelowMax(limit) == limit # DurationMax
\* x > limit
Exceeds(x, limit) == BelowMax(limit) /\ x > limit[1]
\* std::min(x, limit)
AtMost(x, limit) == IF Exceeds(x, limit) THEN limit[1] ELSE x
\* std::max(0, x - limit)
Overrun(x, limit) == IF Exceeds(x, limit) THEN x - limit[1] ELSE 0
\* A null Route pointer (Node::route() of a node that is in no route).
NoRoute == 0 - 1

(***************************************************************************)
(* Small helpers.                                                          *)
(***************************************************************************)
Max2(a, b) == IF a >= b THEN a ELSE b
Min2(a, b) == IF a <= b THEN a ELSE b
MaxOf(S) == CHOOSE x \in S : \A y \in S : x >= y
MinOf(S) == CHOOSE x \in S : \A y \in S : x <= y
Range(s) == {s[k] : k \in 1..Len(s)}

RECURSIVE SumOver(_, _)
\* Sum of f[x] over the entries x of sequence s (f is indexed by location+1).
SumOver(f, s) == IF s = <<>> THEN 0 ELSE f[Head(s) + 1] + SumOver(f, Tail(s))

\* Sequence s without its k-th element (1-based).
RemoveAt(s, k) == SubSeq(s, 1, k - 1) \o SubSeq(s, k + 1, Len(s))
\* Sequence s with the elements of t placed so that they start at position k.
InsertAt(s, k, t) == SubSeq(s, 1, k - 1) \o t \o SubSeq(s, k, Len(s))

RECURSIVE SeqsOver(_)
\* All sequences without repetition over the finite set S (every length).
SeqsOver(S) ==
    {<<>>} \cup UNION {{<<x>> \o t : t \in SeqsOver(S \ {x})} : x \in S}

(***************************************************************************)
(* ProblemData instances.  Every per-location field is a sequence indexed  *)
(* by location + 1.  One load dimension.                                   *)
(***************************************************************************)
VehType(n, cap, fixed, unit, reloads, maxReloads, name) ==
    [numAvailable |-> n, capacity |-> cap, startDepot |-> 0, endDepot |-> 0,
     fixedCost |-> fixed, unitDistanceCost |-> unit, twEarly |-> 0,
     twLate |-> DurationMax, shiftDuration |-> DurationMax,
     reloadDepots |-> reloads, maxReloads |-> maxReloads, name |-> name]

BaseDist == << <<0, 4, 4, 5>>,
               <<4, 0, 2, 6>>,
               <<4, 2, 0, 5>>,
               <<5, 6, 5, 0>> >>

\* A capacitated instance: three required clients, two identical vehicles.
BaseData ==
    [numDepots |-> 1, numClients |-> 3,
     dist |-> BaseDist, dur |-> BaseDist,
     delivery |-> <<0, 4, 4, 4>>, pickup |-> <<0, 0, 0, 0>>,
     prize |-> <<0, 0, 0, 0>>, required |-> <<FALSE, TRUE, TRUE, TRUE>>,
     service |-> <<0, 0, 0, 0>>, twEarly |-> <<0, 0, 0, 0>>,
     twLate |-> <<DurationMax, DurationMax, DurationMax, DurationMax>>,
     depotService |-> <<0>>, reloadCost |-> <<0>>,
     group |-> <<0, 0, 0, 0>>, groups |-> <<>>, sameVehicleGroups |-> <<>>,
     vehicleTypes |-> <<VehType(2, 10, 0, 1, <<>>, 0, "")>>,
     loadPenalty |-> 20, twPenalty |-> 10,
     neighbours |-> << <<>>, <<2, 3>>, <<1, 3>>, <<2, 1>> >>,
     inputClients |-> {1, 2, 3}, extraInputs |-> {},
     clientOrders |-> {<<1, 2, 3>>, <<3, 1, 2>>},
     vehTypeOrder |-> <<0>>, routeOrder |-> <<0, 1>>,
     publicOps |-> {"call", "search", "intensify"},
     nodeOpLists |-> {<<"exchange10", "exchange11", "swap_tails">>},
     routeOps |-> <<>>]

\* Prize collecting: client 1 is required, clients 2 and 3 are optional.
PrizeDist == << <<0, 5, 5, 3>>,
                <<5, 0, 1, 4>>,
                <<5, 1, 0, 6>>,
                <<3, 4, 6, 0>> >>

PrizeData ==
    [BaseData EXCEPT
        !.dist = PrizeDist, !.dur = PrizeDist,
        !.delivery = <<0, 1, 1, 1>>,
        !.prize = <<0, 0, 5, 4>>,
        !.required = <<FALSE, TRUE, FALSE, FALSE>>,
        !.vehicleTypes = <<VehType(1, 10, 0, 1, <<>>, 0, "")>>,
        !.routeOrder = <<0>>,
        !.clientOrders = {<<2, 1, 3>>, <<1, 3, 2>>},
        !.publicOps = {"call", "search"}]

\* Clients 1 and 2 form a mutually exclusive group; the vehicle may reload
\* at the depot once.
GroupData ==
    [BaseData EXCEPT
        !.prize = <<0, 12, 12, 0>>,
        !.required = <<FALSE, FALSE, FALSE, TRUE>>,
        !.group = <<0, 1, 1, 0>>,
        !.groups = << [clients |-> <<1, 2>>, required |-> FALSE] >>,
        !.vehicleTypes = <<VehType(1, 10, 0, 1, <<0>>, 1, "")>>,
        !.routeOrder = <<0>>,
        !.clientOrders = {<<1, 2, 3>>},
        !.publicOps = {"call", "search"}]

\* BaseData with three vehicles: two routes stay empty when one vehicle
\* carries all clients, which is more than it can hold.
SpareData ==
    [BaseData EXCEPT
        !.vehicleTypes = <<VehType(3, 10, 0, 1, <<>>, 0, "")>>,
        !.routeOrder = <<0, 1, 2>>,
        !.clientOrders = {<<1, 2, 3>>},
        !.publicOps = {"search"},
        !.nodeOpLists = {<<"exchange10">>}]

\* GroupData with a group that is required and whose members carry no
\* prize.
RequiredGroupData ==
    [GroupData EXCEPT
        !.prize = <<0, 0, 0, 0>>,
        !.groups = << [clients |-> <<1, 2>>, required |-> TRUE] >>,
        !.clientOrders = {<<2, 1, 3>>},
        !.publicOps = {"search"}]

\* Clients 1 and 2 must share a vehicle; every vehicle carries one client
\* per trip and may reload at the depot once.
SameVehicleData ==
    [BaseData EXCEPT
        !.prize = <<0, 0, 12, 0>>,
        !.required = <<FALSE, TRUE, FALSE, TRUE>>,
        !.sameVehicleGroups = << <<1, 2>> >>,
        !.vehicleTypes = <<VehType(2, 4, 0, 1, <<0>>, 1, "")>>,
        !.clientOrders = {<<1, 2, 3>>},
        !.publicOps = {"call", "search"}]

\* One vehicle that pays two per unit of distance and may reload twice;
\* client 1 is required, client 2 is optional.
TripData ==
    [numDepots |-> 1, numClients |-> 2,
     dist |-> << <<0, 4, 4>>, <<4, 0, 2>>, <<4, 2, 0>> >>,
     dur |-> << <<0, 4, 4>>, <<4, 0, 2>>, <<4, 2, 0>> >>,
     delivery |-> <<0, 4, 4>>, pickup |-> <<0, 0, 0>>,
     prize |-> <<0, 0, 10>>, required |-> <<FALSE, TRUE, FALSE>>,
     service |-> <<0, 0, 0>>, twEarly |-> <<0, 0, 0>>,
     twLate |-> <<DurationMax, DurationMax, DurationMax>>,
     depotService |-> <<0>>, reloadCost |-> <<0>>,
     group |-> <<0, 0, 0>>, groups |-> <<>>, sameVehicleGroups |-> <<>>,
     vehicleTypes |-> <<VehType(1, 4, 0, 2, <<0>>, 2, "")>>,
     loadPenalty |-> 20, twPenalty |-> 10,
     neighbours |-> << <<>>, <<2>>, <<1>> >>,
     inputClients |-> {1, 2}, extraInputs |-> {},
     clientOrders |-> {<<1, 2>>},
     vehTypeOrder |-> <<0>>, routeOrder |-> <<0>>,
     publicOps |-> {"call", "search", "shuffle"},
     nodeOpLists |-> {<<"exchange10", "exchange11", "relocate_with_depot">>},
     routeOps |-> <<>>]

\* Two vehicle types: the first pays three per unit of distance, the second
\* one.  The route operator SwapRoutes is in use.
FleetData ==
    [BaseData EXCEPT
        !.vehicleTypes = <<VehType(1, 10, 0, 3, <<>>, 0, "a"),
                           VehType(1, 10, 0, 1, <<>>, 0, "b")>>,
        !.vehTypeOrder = <<1, 0>>,
        !.clientOrders = {<<1, 2, 3>>},
        !.publicOps = {"call", "search", "intensify"},
        !.nodeOpLists = {<<>>, <<"exchange10">>},
        !.routeOps = <<"swap_routes">>]

\* Two shifts of one vehicle, "s": the first carries ten and pays three per
\* unit of distance, the second carries four and may reload once.  Clients
\* 1 and 2 must share the vehicle; client 2 is optional and demands six.
ShiftData ==
    [TripData EXCEPT
        !.delivery = <<0, 4, 6>>,
        !.sameVehicleGroups = << <<1, 2>> >>,
        !.vehicleTypes = <<VehType(1, 10, 0, 3, <<>>, 0, "s"),
                           VehType(1, 4, 0, 1, <<0>>, 1, "s")>>,
        !.vehTypeOrder = <<0, 1>>, !.routeOrder = <<0, 1>>,
        !.nodeOpLists = {<<"exchange10">>}]

\* TripData with a vehicle that may reload only once.
ReloadData ==
    [TripData EXCEPT
        !.vehicleTypes = <<VehType(1, 4, 0, 2, <<0>>, 1, "")>>]

\* Scenario S5: one vehicle of capacity ten that may reload twice at the
\* depot, and three optional clients of demand six whose prize exceeds the
\* cost of a trip of their own.  The search starts from the empty solution.
MultiTripData ==
    [BaseData EXCEPT
        !.delivery = <<0, 6, 6, 6>>,
        !.prize = <<0, 30, 30, 30>>,
        !.required = <<FALSE, FALSE, FALSE, FALSE>>,
        !.vehicleTypes = <<VehType(1, 10, 0, 1, <<0>>, 2, "")>>,
        !.inputClients = {},
        !.clientOrders = {<<1, 2, 3>>, <<3, 1, 2>>},
        !.routeOrder = <<0>>,
        !.publicOps = {"search", "setNeighbours"},
        !.nodeOpLists = {<<"exchange10", "relocate_with_depot">>}]
\* The same with excess load that costs nothing.
FreeLoadData == [MultiTripData EXCEPT !.loadPenalty = 0]

\* One reload only: two trips for three clients that each fill a trip.
TightTripData ==
    [MultiTripData EXCEPT
        !.vehicleTypes = <<VehType(1, 10, 0, 1, <<0>>, 1, "")>>,
        !.clientOrders = {<<1, 2, 3>>}]

\* MultiTripData with a shift of sixteen: the round trips of clients 1 and 2
\* take eight each and fill it, the round trip of client 3 takes ten.  The
\* search starts from the empty solution or from client 1 in a route.
ShiftLimitData ==
    [MultiTripData EXCEPT
        !.vehicleTypes =
            <<[VehType(1, 10, 0, 1, <<0>>, 2, "")
                  EXCEPT !.shiftDuration = Limit(16)]>>,
        !.inputClients = {1},
        !.clientOrders = {<<1, 2, 3>>},
        !.publicOps = {"search"},
        !.nodeOpLists = {<<"exchange10">>}]

\* Two optional clients that form a mutually exclusive group; client 2 is
\* worth more than client 1.
PairGroupData ==
    [TripData EXCEPT
        !.prize = <<0, 10, 14>>,
        !.required = <<FALSE, FALSE, FALSE>>,
        !.group = <<0, 1, 1>>,
        !.groups = << [clients |-> <<1, 2>>, required |-> FALSE] >>,
        !.vehicleTypes = <<VehType(1, 10, 0, 1, <<>>, 0, "")>>,
        !.publicOps = {"search"},
        !.nodeOpLists = {<<"exchange10">>}]

Instances ==
    <<BaseData, PrizeData, GroupData, SameVehicleData, TripData, FleetData,
      ShiftData, ReloadData, MultiTripData, FreeLoadData,
      RequiredGroupData, SpareData, TightTripData, PairGroupData,
      ShiftLimitData>>

(***************************************************************************)
(* ProblemData queries.                                                    *)
(***************************************************************************)
NumLocations(I) == I.numDepots + I.numClients
Clients(I) == I.numDepots .. (NumLocations(I) - 1)
IsDepotLoc(I, loc) == loc < I.numDepots
Dist(I, i, j) == I.dist[i + 1][j + 1]
Dur(I, i, j) == I.dur[i + 1][j + 1]
NumVehicleTypes(I) == Len(I.vehicleTypes)
\* data.vehicleType(t), t counted from 0 as in the code.
VehicleType(I, t) == I.vehicleTypes[t + 1]

RECURSIVE VehicleOffset(_, _)
\* Index of the first route slot of vehicle type t.
VehicleOffset(I, t) ==
    IF t = 0 THEN 0
    ELSE VehicleOffset(I, t - 1) + VehicleType(I, t - 1).numAvailable

NumVehicles(I) == VehicleOffset(I, NumVehicleTypes(I))
RouteIdxs(I) == 0 .. (NumVehicles(I) - 1)
\* Route::vehicleType() of the route in slot r.
RouteVehType(I, r) ==
    CHOOSE t \in 0 .. (NumVehicleTypes(I) - 1) :
        /\ VehicleOffset(I, t) <= r
        /\ r < VehicleOffset(I, t) + VehicleType(I, t).numAvailable
RouteVT(I, r) == VehicleType(I, RouteVehType(I, r))
\* Route::maxTrips()
MaxTrips(vt) == vt.maxReloads + 1

(***************************************************************************)
(* The working route (search::Route).  A route is the pair of its slot r   *)
(* and its interior sequence s; the queries below are what Route::update() *)
(* computes from the node sequence.                                        *)
(***************************************************************************)
\* The whole node sequence: start depot, interior, end depot.
Full(vt, s) == <<vt.startDepot>> \o s \o <<vt.endDepot>>
\* Route::size(): number of nodes, both depots included.
RouteSize(s) == Len(s) + 2
\* Route::operator[](idx): the location of the node at index idx.
NodeAt(vt, s, idx) == Full(vt, s)[idx + 1]
\* Node::isReloadDepot(): a depot that is neither the start nor the end node.
IsReloadDepotAt(I, s, idx) ==
    idx >= 1 /\ idx <= Len(s) /\ IsDepotLoc(I, s[idx])
\* Route::numClients()
NumClients(I, s) == Cardinality({k \in 1..Len(s) : ~IsDepotLoc(I, s[k])})
\* Route::numTrips(): one more than the number of reload depots.
NumTrips(I, s) == 1 + Cardinality({k \in 1..Len(s) : IsDepotLoc(I, s[k])})

RECURSIVE SplitTrips(_, _)
\* The client runs between consecutive depots of interior sequence s.
SplitTrips(I, s) ==
    IF s = <<>> THEN << <<>> >>
    ELSE LET rest == SplitTrips(I, Tail(s))
         IN  IF IsDepotLoc(I, Head(s)) THEN << <<>> >> \o rest
             ELSE << <<Head(s)>> \o rest[1] >> \o Tail(rest)

\* Largest load carried on one trip: deliveries not yet made plus pickups made.
TripMaxLoad(I, trip) ==
    MaxOf({SumOver(I.delivery, SubSeq(trip, k + 1, Len(trip)))
             + SumOver(I.pickup, SubSeq(trip, 1, k)) : k \in 0..Len(trip)})

RECURSIVE SumExcess(_, _, _)
SumExcess(I, vt, trips) ==
    IF trips = <<>> THEN 0
    ELSE Max2(0, TripMaxLoad(I, Head(trips)) - vt.capacity)
           + SumExcess(I, vt, Tail(trips))

\* Route::excessLoad(): summed over the trips of the route.
ExcessLoad(I, vt, s) == SumExcess(I, vt, SplitTrips(I, s))

RECURSIVE PathDistance(_, _)
PathDistance(I, f) ==
    IF Len(f) < 2 THEN 0
    ELSE Dist(I, f[1], f[2]) + PathDistance(I, Tail(f))

\* Route::distance()
RouteDistance(I, vt, s) == PathDistance(I, Full(vt, s))

RECURSIVE Schedule(_, _, _, _, _, _)
\* Forward pass over the nodes f[k..]: t is the departure time from f[k-1],
\* tw the time warp so far.  Yields the arrival time at the end depot and the
\* total time warp.
Schedule(I, vt, f, k, t, tw) ==
    LET node == f[k]
        arrive == t + Dur(I, f[k - 1], node)
    IN  IF k = Len(f)
        THEN [endTime |-> AtMost(arrive, vt.twLate),
              timeWarp |-> tw + Overrun(arrive, vt.twLate)]
        ELSE IF IsDepotLoc(I, node)
        THEN Schedule(I, vt, f, k + 1, arrive + I.depotService[node + 1], tw)
        ELSE LET start == Max2(arrive, I.twEarly[node + 1])
                 late == I.twLate[node + 1]
             IN  Schedule(I, vt, f, k + 1,
                          AtMost(start, late) + I.service[node + 1],
                          tw + Overrun(start, late))

\* Route::timeWarp()
TimeWarp(I, vt, s) ==
    IF s = <<>> THEN 0
    ELSE Schedule(I, vt, Full(vt, s), 2, vt.twEarly, 0).timeWarp
\* Route::duration()
Duration(I, vt, s) ==
    IF s = <<>> THEN 0
    ELSE Schedule(I, vt, Full(vt, s), 2, vt.twEarly, 0).endTime - vt.twEarly
\* Route::isFeasible()
IsFeasible(I, vt, s) == TimeWarp(I, vt, s) = 0 /\ ExcessLoad(I, vt, s) = 0

\* Sum of the reload costs of the reload depots visited.
ReloadCosts(I, s) ==
    SumOver(I.reloadCost, SelectSeq(s, LAMBDA x : IsDepotLoc(I, x)))
\* Sum of the prizes of the clients visited.
Prizes(I, s) == SumOver(I.prize, SelectSeq(s, LAMBDA x : ~IsDepotLoc(I, x)))

(***************************************************************************)
(* CostEvaluator::penalisedCost(route), as the specification gives it:     *)
(* fixed cost + distance cost + load and time-warp penalties - prizes      *)
(* + reload costs.  An empty route costs nothing.                          *)
(***************************************************************************)
PenalisedCost(I, vt, s) ==
    IF s = <<>> THEN 0
    ELSE vt.fixedCost + vt.unitDistanceCost * RouteDistance(I, vt, s)
           + I.loadPenalty * ExcessLoad(I, vt, s)
           + I.twPenalty * TimeWarp(I, vt, s)
           - Prizes(I, s) + ReloadCosts(I, s)

\* The penalised cost of the route in slot r when its interior is s.
CostOf(I, r, s) == PenalisedCost(I, RouteVT(I, r), s)

RECURSIVE SumCosts(_, _, _)
SumCosts(I, rts, r) ==
    IF r = NumVehicles(I) THEN 0
    ELSE CostOf(I, r, rts[r]) + SumCosts(I, rts, r + 1)
\* The penalised cost of a whole working solution.
TotalCost(I, rts) == SumCosts(I, rts, 0)

(***************************************************************************)
(* Nodes.  A client node is named by its client.  Outside Solution::load   *)
(* every listed node points to the route that lists it, and its route and  *)
(* index are looked up in the routes (Node::route(), Node::idx()); the     *)
(* pointers themselves are the variable nodes, which Solution::load        *)
(* changes call by call.                                                   *)
(***************************************************************************)
RouteOf(I, rts, c) ==
    IF \E r \in RouteIdxs(I) : c \in Range(rts[r])
    THEN CHOOSE r \in RouteIdxs(I) : c \in Range(rts[r])
    ELSE NoRoute
IdxOf(I, rts, c) ==
    LET s == rts[RouteOf(I, rts, c)] IN CHOOSE k \in 1..Len(s) : s[k] = c
Routed(I, rts) == {c \in Clients(I) : RouteOf(I, rts, c) # NoRoute}
\* Node::route() of every client once the routes are rts: Route::insert,
\* Route::remove and Route::swap leave every node they list pointing to its
\* route and every node they take out pointing to none.
Owners(I, rts) == [c \in Clients(I) |-> RouteOf(I, rts, c)]
EmptyRoutes(I) == [r \in RouteIdxs(I) |-> <<>>]

(***************************************************************************)
(* primitives: the cost deltas of inserting, removing and replacing one    *)
(* node.  A node is given as a client, or as [r |-> route, idx |-> index]. *)
(***************************************************************************)
Node(r, idx) == [r |-> r, idx |-> idx]
ClientNode(I, rts, c) == Node(RouteOf(I, rts, c), IdxOf(I, rts, c))

\* insertCost(U, V, ...): delta of placing unrouted client u right after V.
InsertCost(I, rts, u, V) ==
    IF RouteOf(I, rts, u) # NoRoute THEN 0
    ELSE CostOf(I, V.r, InsertAt(rts[V.r], V.idx + 1, <<u>>))
           - CostOf(I, V.r, rts[V.r])

\* removeCost(U, ...): delta of taking the node at U out of its route.
RemoveCost(I, rts, U) ==
    IF U.r = NoRoute \/ U.idx < 1 \/ U.idx > Len(rts[U.r]) THEN 0
    ELSE CostOf(I, U.r, RemoveAt(rts[U.r], U.idx)) - CostOf(I, U.r, rts[U.r])

\* removeCost of a client that may be unrouted.
RemoveCostClient(I, rts, c) ==
    IF RouteOf(I, rts, c) = NoRoute THEN 0
    ELSE RemoveCost(I, rts, ClientNode(I, rts, c))

\* inplaceCost(U, V, ...): delta of putting unrouted u in routed v's place.
InplaceCost(I, rts, u, v) ==
    IF RouteOf(I, rts, v) = NoRoute \/ RouteOf(I, rts, u) # NoRoute THEN 0
    ELSE LET r == RouteOf(I, rts, v)
             k == IdxOf(I, rts, v)
         IN  CostOf(I, r, [rts[r] EXCEPT ![k] = u]) - CostOf(I, r, rts[r])

\* route->remove(idx)
RouteRemove(rts, r, idx) == [rts EXCEPT ![r] = RemoveAt(rts[r], idx)]
\* route->remove(idx); route->insert(idx, U)
RouteReplace(rts, r, idx, u) == [rts EXCEPT ![r][idx] = u]

(***************************************************************************)
(* LocalSearch::wouldViolateSameVehicle(U, targetRoute); target NoRoute    *)
(* stands for the null target of a removal.  u is the node's location.     *)
(***************************************************************************)
SameVehicleGroupsOf(I, u) ==
    {g \in 1..Len(I.sameVehicleGroups) : u \in Range(I.sameVehicleGroups[g])}

SameNonEmptyName(I, r1, r2) ==
    /\ RouteVT(I, r1).name # ""
    /\ RouteVT(I, r1).name = RouteVT(I, r2).name

\* A variant of wouldViolateSameVehicle without the vehicle-name exception.
WouldViolateSameVehicleAnyName(I, rts, u, current, target) ==
    IF SameVehicleGroupsOf(I, u) = {} THEN FALSE
    ELSE IF current = NoRoute \/ current = target THEN FALSE
    ELSE \E g \in SameVehicleGroupsOf(I, u) :
            \E o \in Range(I.sameVehicleGroups[g]) :
                o # u /\ RouteOf(I, rts, o) = current

WouldViolateSameVehicle(I, rts, u, current, target) ==
    IF SameVehicleGroupsOf(I, u) = {} THEN FALSE
    ELSE IF current = NoRoute \/ current = target THEN FALSE
    ELSE IF target # NoRoute /\ SameNonEmptyName(I, current, target) THEN FALSE
    ELSE \E g \in SameVehicleGroupsOf(I, u) :
            \E o \in Range(I.sameVehicleGroups[g]) :
                o # u /\ RouteOf(I, rts, o) = current

(***************************************************************************)
(* Node operators.  Move(op, ...) is the routes after op's apply(U, V), or *)
(* the routes unchanged when op does not apply to the pair; evaluate()     *)
(* returns the exact difference in penalised cost of the routes of U and V.*)
(***************************************************************************)
ExchangeN(op) ==
    CASE op \in {"exchange10", "exchange11"} -> 1
      [] op \in {"exchange20", "exchange21", "exchange22"} -> 2
      [] OTHER -> 3
ExchangeM(op) ==
    CASE op \in {"exchange10", "exchange20", "exchange30"} -> 0
      [] op \in {"exchange11", "exchange21", "exchange31"} -> 1
      [] op \in {"exchange22", "exchange32"} -> 2
      [] OTHER -> 3
IsExchange(op) ==
    op \in {"exchange10", "exchange11", "exchange20", "exchange21",
            "exchange22", "exchange30", "exchange31", "exchange32",
            "exchange33"}

\* Exchange::containsDepot(node, segLength): the segment leaves the interior
\* of the route or holds a (reload) depot.
ContainsDepot(I, s, idx, n) ==
    \/ idx < 1
    \/ idx + n - 1 > Len(s)
    \/ \E k \in idx .. (idx + n - 1) : IsDepotLoc(I, s[k])

\* Exchange<N, M>: the N nodes from U and the M nodes from V change places;
\* with M = 0 the N nodes are placed right after V.
ExchangeMove(I, rts, N, M, U, V) ==
    LET sU == rts[U.r]
        sV == rts[V.r]
        i == U.idx
        j == IF M = 0 THEN V.idx + 1 ELSE V.idx
        same == U.r = V.r
        segU == SubSeq(sU, i, i + N - 1)
        segV == SubSeq(sV, j, j + M - 1)
        applies ==
            /\ ~ContainsDepot(I, sU, i, N)
            /\ M > 0 => ~ContainsDepot(I, sV, V.idx, M)
            /\ ~(same /\ i <= V.idx + M - 1 /\ V.idx <= i + N - 1)
            /\ M = 0 => ~(same /\ i = V.idx + 1)
            /\ (M > 0 /\ N = M) => sU[i] < sV[V.idx]
            /\ M > 0 => ~(same /\ (i + N = V.idx \/ V.idx + M = i))
            /\ ~(same /\ i = V.idx)
    IN  IF ~applies THEN rts
        ELSE IF ~same
        THEN [rts EXCEPT
                ![U.r] = SubSeq(sU, 1, i - 1) \o segV
                           \o SubSeq(sU, i + N, Len(sU)),
                ![V.r] = SubSeq(sV, 1, j - 1) \o segU
                           \o SubSeq(sV, j + M, Len(sV))]
        ELSE IF i < j
        THEN [rts EXCEPT
                ![U.r] = SubSeq(sU, 1, i - 1) \o segV
                           \o SubSeq(sU, i + N, j - 1) \o segU
                           \o SubSeq(sU, j + M, Len(sU))]
        ELSE [rts EXCEPT
                ![U.r] = SubSeq(sU, 1, j - 1) \o segU
                           \o SubSeq(sU, j + M, i - 1) \o segV
                           \o SubSeq(sU, i + N, Len(sU))]

\* SwapTails: the nodes after U and the nodes after V change routes.
SwapTailsMove(I, rts, U, V) ==
    LET sU == rts[U.r]
        sV == rts[V.r]
    IN  IF U.r = V.r \/ U.idx > Len(sU) \/ V.idx > Len(sV) THEN rts
        ELSE [rts EXCEPT
                ![U.r] = SubSeq(sU, 1, U.idx) \o SubSeq(sV, V.idx + 1, Len(sV)),
                ![V.r] = SubSeq(sV, 1, V.idx) \o SubSeq(sU, U.idx + 1, Len(sU))]

\* The routes after relocating client U behind V with reload depot d placed
\* before it (depotFirst) or after it.
RelocateDepotResult(I, rts, U, V, d, depotFirst) ==
    LET u == rts[U.r][U.idx]
        seg == IF depotFirst THEN <<d, u>> ELSE <<u, d>>
        removed == RouteRemove(rts, U.r, U.idx)
        at == IF U.r = V.r /\ U.idx <= V.idx THEN V.idx ELSE V.idx + 1
    IN  [removed EXCEPT ![V.r] = InsertAt(removed[V.r], at, seg)]

PairCost(I, rts, rU, rV) ==
    CostOf(I, rU, rts[rU]) + (IF rU # rV THEN CostOf(I, rV, rts[rV]) ELSE 0)

\* RelocateWithDepot: U moves behind V together with a new reload depot, on
\* the cheaper side of U.
RelocateWithDepotMove(I, rts, U, V) ==
    LET vt == RouteVT(I, V.r)
        ok == /\ vt.reloadDepots # <<>>
              /\ NumTrips(I, rts[V.r]) < MaxTrips(vt)
              /\ ~ContainsDepot(I, rts[U.r], U.idx, 1)
              /\ ~(U.r = V.r /\ U.idx = V.idx)
              /\ V.idx <= Len(rts[V.r])
        d == vt.reloadDepots[1]
        first == RelocateDepotResult(I, rts, U, V, d, TRUE)
        second == RelocateDepotResult(I, rts, U, V, d, FALSE)
    IN  IF ~ok THEN rts
        ELSE IF PairCost(I, first, U.r, V.r) <= PairCost(I, second, U.r, V.r)
        THEN first ELSE second

\* NodeOperator::apply(U, V) of the operator named op.
NodeOpMove(I, rts, op, U, V) ==
    IF IsExchange(op)
    THEN ExchangeMove(I, rts, ExchangeN(op), ExchangeM(op), U, V)
    ELSE IF op = "swap_tails" THEN SwapTailsMove(I, rts, U, V)
    ELSE IF op = "relocate_with_depot" THEN RelocateWithDepotMove(I, rts, U, V)
    ELSE rts

\* NodeOperator::evaluate(U, V, costEvaluator)
NodeOpEvaluate(I, rts, op, U, V) ==
    PairCost(I, NodeOpMove(I, rts, op, U, V), U.r, V.r)
      - PairCost(I, rts, U.r, V.r)

(***************************************************************************)
(* Route operators.                                                        *)
(***************************************************************************)
\* SwapRoutes: the two routes exchange all their visits.
SwapRoutesMove(I, rts, rU, rV) ==
    IF rU = rV \/ RouteVehType(I, rU) = RouteVehType(I, rV) THEN rts
    ELSE [rts EXCEPT ![rU] = rts[rV], ![rV] = rts[rU]]

\* RouteOperator::apply(U, V)
RouteOpMove(I, rts, op, rU, rV) ==
    IF op = "swap_routes" THEN SwapRoutesMove(I, rts, rU, rV) ELSE rts

\* RouteOperator::evaluate(U, V, costEvaluator)
RouteOpEvaluate(I, rts, op, rU, rV) ==
    PairCost(I, RouteOpMove(I, rts, op, rU, rV), rU, rV)
      - PairCost(I, rts, rU, rV)

(***************************************************************************)
(* Solution::insert(U, searchSpace, costEvaluator, required).              *)
(***************************************************************************)
\* The route of the first routed other member of the first same-vehicle
\* group of u that has one (requiredRoute), or NoRoute.
RequiredRoute(I, rts, u) ==
    LET has(g) == \E o \in Range(I.sameVehicleGroups[g]) :
                      o # u /\ RouteOf(I, rts, o) # NoRoute
        gs == {g \in SameVehicleGroupsOf(I, u) : has(g)}
    IN  IF gs = {} THEN NoRoute
        ELSE LET grp == I.sameVehicleGroups[MinOf(gs)]
                 k == MinOf({x \in 1..Len(grp) :
                               grp[x] # u /\ RouteOf(I, rts, grp[x]) # NoRoute})
             IN  RouteOf(I, rts, grp[k])

\* The lambda isCompatibleRoute of Solution::insert.
IsCompatibleRoute(I, req, r) ==
    \/ req = NoRoute
    \/ r = req
    \/ SameNonEmptyName(I, req, r)

RECURSIVE InsertNeighbours(_, _, _, _, _, _)
\* The loop over neighboursOf(U): best is [cost, after].
InsertNeighbours(I, rts, u, req, vs, best) ==
    IF vs = <<>> THEN best
    ELSE LET v == Head(vs)
             rv == RouteOf(I, rts, v)
         IN  IF rv = NoRoute \/ ~IsCompatibleRoute(I, req, rv)
             THEN InsertNeighbours(I, rts, u, req, Tail(vs), best)
             ELSE LET V == ClientNode(I, rts, v)
                      cost == InsertCost(I, rts, u, V)
                  IN  InsertNeighbours(I, rts, u, req, Tail(vs),
                          IF cost < best.cost
                          THEN [cost |-> cost, after |-> V] ELSE best)

RECURSIVE InsertTypeRoutes(_, _, _, _, _, _, _)
\* The inner loop over the routes r .. last-1 of one vehicle type.
InsertTypeRoutes(I, rts, u, req, r, last, best) ==
    IF r = last THEN best
    ELSE IF ~IsCompatibleRoute(I, req, r)
    THEN InsertTypeRoutes(I, rts, u, req, r + 1, last, best)
    ELSE IF rts[r] # <<>> /\ best.after.r = r
    THEN InsertTypeRoutes(I, rts, u, req, r + 1, last, best)
    ELSE LET cost == InsertCost(I, rts, u, Node(r, 0))
         IN  IF cost < best.cost
             THEN IF rts[r] = <<>>
                  THEN [cost |-> cost, after |-> Node(r, 0)]
                  ELSE InsertTypeRoutes(I, rts, u, req, r + 1, last,
                                        [cost |-> cost, after |-> Node(r, 0)])
             ELSE InsertTypeRoutes(I, rts, u, req, r + 1, last, best)

RECURSIVE InsertVehTypes(_, _, _, _, _, _)
\* The loop over searchSpace.vehTypeOrder().
InsertVehTypes(I, rts, u, req, types, best) ==
    IF types = <<>> THEN best
    ELSE LET t == Head(types)
             begin == VehicleOffset(I, t)
         IN  InsertVehTypes(I, rts, u, req, Tail(types),
                 InsertTypeRoutes(I, rts, u, req, begin,
                     begin + VehicleType(I, t).numAvailable, best))

\* Largest of delivery and pickup of client u.
ClientDemand(I, u) == Max2(Max2(0, I.delivery[u + 1]), I.pickup[u + 1])

\* wouldExceedCapacity of Solution::insert for insertion after UAfter.
WouldExceedCapacity(I, rts, u, after) ==
    LET s == rts[after.r]
        vt == RouteVT(I, after.r)
        lastClientIdx == IF RouteSize(s) > 2 THEN RouteSize(s) - 2 ELSE 0
        maxIdx == Min2(after.idx, lastClientIdx)
        depotsBefore == {k \in 1..maxIdx : IsReloadDepotAt(I, s, k)}
        tripStartIdx == IF depotsBefore = {} THEN 1 ELSE MaxOf(depotsBefore) + 1
        trip == SelectSeq(SubSeq(s, tripStartIdx, maxIdx),
                          LAMBDA x : ~IsDepotLoc(I, x))
        startLoad == SumOver(I.delivery, trip) + I.delivery[u + 1]
        endLoad == SumOver(I.pickup, trip) + I.pickup[u + 1]
    IN  Max2(startLoad, endLoad) > vt.capacity

\* canUseMultiTrip of Solution::insert for the route of UAfter.
CanUseMultiTrip(I, rts, r) ==
    /\ RouteVT(I, r).reloadDepots # <<>>
    /\ NumTrips(I, rts[r]) < MaxTrips(RouteVT(I, r))

\* A variant of the new-trip feasibility checks that never looks at the
\* number of trips the route already has.
NewTripSkipsAnyTrips(I, rts, u, r) ==
    LET s == rts[r]
        vt == RouteVT(I, r)
    IN  \/ s = <<>>
        \/ vt.reloadDepots = <<>>
        \/ TimeWarp(I, vt, s) > 0
        \/ LET d == vt.reloadDepots[1]
               tripDur == Dur(I, d, u) + I.service[u + 1] + Dur(I, u, d)
                            + I.depotService[d + 1]
               routeEndEarly == vt.twEarly + Duration(I, vt, s)
                                  - TimeWarp(I, vt, s)
               arriveAtClient == routeEndEarly + Dur(I, d, u)
               finishService == Max2(arriveAtClient, I.twEarly[u + 1])
                                  + I.service[u + 1]
           IN  \/ /\ BelowMax(vt.shiftDuration)
                  /\ Exceeds(Duration(I, vt, s) + tripDur, vt.shiftDuration)
               \/ Exceeds(arriveAtClient, I.twLate[u + 1])
               \/ Exceeds(finishService + Dur(I, u, d), vt.twLate)
\* The feasibility checks of the new-trip candidate on route r: TRUE when
\* the route is skipped.
NewTripSkips(I, rts, u, r) ==
    LET s == rts[r]
        vt == RouteVT(I, r)
    IN  \/ s = <<>>
        \/ vt.reloadDepots = <<>>
        \/ NumTrips(I, s) >= MaxTrips(vt)
        \/ TimeWarp(I, vt, s) > 0
        \/ LET d == vt.reloadDepots[1]
               tripDur == Dur(I, d, u) + I.service[u + 1] + Dur(I, u, d)
                            + I.depotService[d + 1]
               routeEndEarly == vt.twEarly + Duration(I, vt, s)
                                  - TimeWarp(I, vt, s)
               arriveAtClient == routeEndEarly + Dur(I, d, u)
               finishService == Max2(arriveAtClient, I.twEarly[u + 1])
                                  + I.service[u + 1]
           IN  \/ /\ BelowMax(vt.shiftDuration)
                  /\ Exceeds(Duration(I, vt, s) + tripDur, vt.shiftDuration)
               \/ Exceeds(arriveAtClient, I.twLate[u + 1])
               \/ Exceeds(finishService + Dur(I, u, d), vt.twLate)

\* newTripCost: distance of the new trip + reload cost - prize.
NewTripCost(I, u, r) ==
    LET d == RouteVT(I, r).reloadDepots[1]
    IN  Dist(I, d, u) + Dist(I, u, d) + I.reloadCost[d + 1] - I.prize[u + 1]

RECURSIVE InsertNewTrip(_, _, _, _, _)
\* The loop over all routes that looks for a new-trip candidate; nt is
\* [cost, route], route NoRoute while insertAsNewTrip is false.
InsertNewTrip(I, rts, u, r, nt) ==
    IF r = NumVehicles(I) THEN nt
    ELSE IF NewTripSkips(I, rts, u, r)
    THEN InsertNewTrip(I, rts, u, r + 1, nt)
    ELSE InsertNewTrip(I, rts, u, r + 1,
             IF NewTripCost(I, u, r) < nt.cost
             THEN [cost |-> NewTripCost(I, u, r), route |-> r] ELSE nt)

\* The new-trip candidate, looked for when the best standard insertion std
\* does not pay: [found, std, after, nt], std the cost of the best standard
\* insertion, after the node it is made behind, nt [cost, route] the final
\* best cost and the route of a new-trip insertion or NoRoute.
InsertCandidate(I, rts, u, std) ==
    IF /\ I.prize[u + 1] > 0
       /\ ClientDemand(I, u) <= RouteVT(I, std.after.r).capacity
       /\ std.cost >= 0
    THEN [found |-> TRUE, std |-> std.cost, after |-> std.after,
          nt |-> InsertNewTrip(I, rts, u, 0,
                               [cost |-> std.cost, route |-> NoRoute])]
    ELSE [found |-> TRUE, std |-> std.cost, after |-> std.after,
          nt |-> [cost |-> std.cost, route |-> NoRoute]]

\* The search of Solution::insert from the first compatible route on.
InsertFrom(I, rts, u, types, req, first) ==
    InsertCandidate(I, rts, u,
        InsertVehTypes(I, rts, u, req, types,
            InsertNeighbours(I, rts, u, req, I.neighbours[u + 1],
                [cost |-> InsertCost(I, rts, u, first), after |-> first])))

\* The set of routes that are compatible with requiredRoute req.
CompatibleRoutes(I, req) ==
    {r \in RouteIdxs(I) : IsCompatibleRoute(I, req, r)}

\* The candidate Solution::insert settles on.
InsertBest(I, rts, u, types) ==
    IF CompatibleRoutes(I, RequiredRoute(I, rts, u)) = {}
    THEN [found |-> FALSE, std |-> CostMax, after |-> Node(NoRoute, 0),
          nt |-> [cost |-> CostMax, route |-> NoRoute]]
    ELSE InsertFrom(I, rts, u, types, RequiredRoute(I, rts, u),
             Node(MinOf(CompatibleRoutes(I, RequiredRoute(I, rts, u))), 0))

\* The routes after client u and reload depot d are placed from index at on.
WithTrip(rts, r, at, d, u) == [rts EXCEPT ![r] = InsertAt(rts[r], at, <<d, u>>)]

\* A variant of the commit that does not look at the cost.
InsertCommitAlways(I, rts, u, required, b) ==
    IF ~b.found
    THEN [inserted |-> FALSE, routes |-> rts, route |-> NoRoute,
          kind |-> "none"]
    ELSE IF b.nt.route # NoRoute
    THEN [inserted |-> TRUE,
          routes |-> WithTrip(rts, b.nt.route,
                              RouteSize(rts[b.nt.route]) - 1,
                              RouteVT(I, b.nt.route).reloadDepots[1], u),
          route |-> b.nt.route, kind |-> "newtrip"]
    ELSE [inserted |-> TRUE,
          routes |-> [rts EXCEPT ![b.after.r] =
                         InsertAt(rts[b.after.r], b.after.idx + 1, <<u>>)],
          route |-> b.after.r, kind |-> "standard"]

\* The commit of Solution::insert for candidate b:
\* [inserted, routes, route, kind], kind telling which of the three
\* insertions was made.
InsertCommit(I, rts, u, required, b) ==
    IF ~b.found \/ ~(required \/ b.nt.cost < 0)
    THEN [inserted |-> FALSE, routes |-> rts, route |-> NoRoute,
          kind |-> "none"]
    ELSE IF b.nt.route # NoRoute
    THEN [inserted |-> TRUE,
          routes |-> WithTrip(rts, b.nt.route,
                              RouteSize(rts[b.nt.route]) - 1,
                              RouteVT(I, b.nt.route).reloadDepots[1], u),
          route |-> b.nt.route, kind |-> "newtrip"]
    ELSE IF WouldExceedCapacity(I, rts, u, b.after)
              /\ CanUseMultiTrip(I, rts, b.after.r)
    THEN [inserted |-> TRUE,
          routes |-> WithTrip(rts, b.after.r, b.after.idx + 1,
                              RouteVT(I, b.after.r).reloadDepots[1], u),
          route |-> b.after.r, kind |-> "reload"]
    ELSE [inserted |-> TRUE,
          routes |-> [rts EXCEPT ![b.after.r] =
                         InsertAt(rts[b.after.r], b.after.idx + 1, <<u>>)],
          route |-> b.after.r, kind |-> "standard"]

\* Solution::insert(U, searchSpace, costEvaluator, required)
SolutionInsert(I, rts, u, types, required) ==
    InsertCommit(I, rts, u, required, InsertBest(I, rts, u, types))

(***************************************************************************)
(* The immutable pyvrp::Solution: a sequence of routes, each               *)
(* [vehicleType, trips], a trip being [visits, startDepot, endDepot].      *)
(***************************************************************************)
RECURSIVE Flatten(_)
Flatten(ss) == IF ss = <<>> THEN <<>> ELSE Head(ss) \o Flatten(Tail(ss))

\* The reload depots of interior sequence s, in order.
ReloadDepotsOf(I, s) == SelectSeq(s, LAMBDA x : IsDepotLoc(I, x))

\* A variant of unload that returns the clients of a route as one trip.
UnloadTripsMerged(I, vt, s) ==
    << [visits |-> SelectSeq(s, LAMBDA x : ~IsDepotLoc(I, x)),
        startDepot |-> vt.startDepot, endDepot |-> vt.endDepot] >>

\* The trips Solution::unload builds for one working route.
UnloadTrips(I, vt, s) ==
    LET runs == SplitTrips(I, s)
        depots == <<vt.startDepot>> \o ReloadDepotsOf(I, s) \o <<vt.endDepot>>
    IN  [k \in 1..Len(runs) |->
            [visits |-> runs[k], startDepot |-> depots[k],
             endDepot |-> depots[k + 1]]]

RECURSIVE UnloadFrom(_, _, _)
UnloadFrom(I, rts, r) ==
    IF r = NumVehicles(I) THEN <<>>
    ELSE IF rts[r] = <<>> THEN UnloadFrom(I, rts, r + 1)
    ELSE << [vehicleType |-> RouteVehType(I, r),
             trips |-> UnloadTrips(I, RouteVT(I, r), rts[r])] >>
           \o UnloadFrom(I, rts, r + 1)

\* Solution::unload()
Unload(I, rts) == UnloadFrom(I, rts, 0)

\* The assertion of Solution::unload: as many trips as Route::numTrips().
UnloadAssertion(I, rts) ==
    \A r \in RouteIdxs(I) :
        rts[r] # <<>> =>
            Len(UnloadTrips(I, RouteVT(I, r), rts[r])) = NumTrips(I, rts[r])

\* The nodes Solution::load pushes for one route of the solution: each
\* trip but the first is preceded by its start depot.
LoadRouteNodes(solRoute) ==
    Flatten([k \in 1..Len(solRoute.trips) |->
                (IF k = 1 THEN <<>> ELSE <<solRoute.trips[k].startDepot>>)
                  \o solRoute.trips[k].visits])

\* A variant of the route comparison that looks at the set of clients only.
RouteEqualsByClients(s, solRoute) ==
    Range(s) = UNION {Range(tr.visits) : tr \in Range(solRoute.trips)}

\* Route::operator==(pyvrp::Route): the working route already holds the
\* visits of the solution's route.
RouteEquals(s, solRoute) == s = LoadRouteNodes(solRoute)

\* The working solution while Solution::load runs: routes is slot -> node
\* sequence, route is client -> the slot Node::route() points to.
Working(rts, ptrs) == [routes |-> rts, route |-> ptrs]

\* A variant of Route::clear() that unassigns every node the route lists,
\* also one that another route has taken since.
RouteClearListed(W, r) ==
    Working([W.routes EXCEPT ![r] = <<>>],
            [c \in DOMAIN W.route |->
                IF c \in Range(W.routes[r]) THEN NoRoute ELSE W.route[c]])

\* Route::clear() of the route in slot r: the route keeps no node, and the
\* nodes it listed that still point to it point to no route.
RouteClear(W, r) ==
    Working([W.routes EXCEPT ![r] = <<>>],
            [c \in DOMAIN W.route |->
                IF c \in Range(W.routes[r]) /\ W.route[c] = r
                THEN NoRoute ELSE W.route[c]])

\* Route::push_back(node) of the route in slot r: the node goes before the
\* end depot; a client node now points to r, a trip delimiter is a depot
\* node of the route itself.
RoutePushBack(W, r, loc) ==
    Working([W.routes EXCEPT ![r] = Append(@, loc)],
            IF loc \in DOMAIN W.route THEN [W.route EXCEPT ![loc] = r]
            ELSE W.route)

RECURSIVE PushAll(_, _, _)
\* The push_back calls of Solution::load for one route, in order.
PushAll(W, r, locs) ==
    IF locs = <<>> THEN W
    ELSE PushAll(RoutePushBack(W, r, Head(locs)), r, Tail(locs))

RECURSIVE LoadRoutes(_, _, _, _)
\* The loop of Solution::load over the solution's routes; offs is
\* vehicleOffset, indexed by vehicle type + 1.  Yields [loaded, offs].
LoadRoutes(I, W, solRoutes, offs) ==
    IF solRoutes = <<>> THEN [loaded |-> W, offs |-> offs]
    ELSE LET solRoute == Head(solRoutes)
             t == solRoute.vehicleType
             idx == offs[t + 1]
             next == [offs EXCEPT ![t + 1] = idx + 1]
         IN  IF RouteEquals(W.routes[idx], solRoute)
             THEN LoadRoutes(I, W, Tail(solRoutes), next)
             ELSE LoadRoutes(I, PushAll(RouteClear(W, idx), idx,
                                        LoadRouteNodes(solRoute)),
                             Tail(solRoutes), next)

RECURSIVE ClearUnused(_, _, _, _)
\* The last loop of Solution::load: the slots from vehicleOffset[vehType] to
\* the first slot of the next type are cleared, type by type from vehType.
ClearUnused(I, W, offs, vehType) ==
    IF vehType = NumVehicleTypes(I) THEN W
    ELSE LET firstOfNextType == VehicleOffset(I, vehType + 1)
             RECURSIVE ClearFrom(_, _)
             ClearFrom(V, idx) ==
                 IF idx >= firstOfNextType THEN V
                 ELSE ClearFrom(RouteClear(V, idx), idx + 1)
         IN  ClearUnused(I, ClearFrom(W, offs[vehType + 1]), offs, vehType + 1)

\* A variant of load that does not clear the slots it did not use.
LoadKeepUnused(I, rts, ptrs, sol) ==
    LoadRoutes(I, Working(rts, ptrs), sol,
        [t \in 1..NumVehicleTypes(I) |-> VehicleOffset(I, t - 1)]).loaded

\* Solution::load(solution): the working routes and the nodes' routes after
\* loading into the working routes rts, whose nodes point to ptrs.
Load(I, rts, ptrs, sol) ==
    LET start == [t \in 1..NumVehicleTypes(I) |-> VehicleOffset(I, t - 1)]
        done == LoadRoutes(I, Working(rts, ptrs), sol, start)
    IN  ClearUnused(I, done.loaded, done.offs, 0)

(***************************************************************************)
(* LocalSearch::improveWithMultiTrip, one client at a time.                *)
(***************************************************************************)
\* A variant of the checks that does not look at the feasibility of the
\* route nor at the number of trips it has.
MultiTripSkipsFew(I, rts, u, r) ==
    LET s == rts[r]
        vt == RouteVT(I, r)
    IN  \/ s = <<>>
        \/ vt.reloadDepots = <<>>
        \/ ClientDemand(I, u) > vt.capacity
        \/ LET d == vt.reloadDepots[1]
               dur == Dur(I, d, u) + Dur(I, u, d) + I.service[u + 1]
           IN  /\ BelowMax(vt.shiftDuration)
               /\ Exceeds(Duration(I, vt, s) + dur + I.depotService[d + 1],
                          vt.shiftDuration)

\* A variant of the checks that does not look at the shift duration.
MultiTripSkipsNoShift(I, rts, u, r) ==
    LET s == rts[r]
        vt == RouteVT(I, r)
    IN  \/ s = <<>>
        \/ vt.reloadDepots = <<>>
        \/ NumTrips(I, s) >= MaxTrips(vt)
        \/ ~IsFeasible(I, vt, s)
        \/ ClientDemand(I, u) > vt.capacity

\* The route is passed over for client u (one of the `continue`s is taken).
MultiTripSkips(I, rts, u, r) ==
    LET s == rts[r]
        vt == RouteVT(I, r)
    IN  \/ s = <<>>
        \/ vt.reloadDepots = <<>>
        \/ NumTrips(I, s) >= MaxTrips(vt)
        \/ ~IsFeasible(I, vt, s)
        \/ ClientDemand(I, u) > vt.capacity
        \/ LET d == vt.reloadDepots[1]
               dur == Dur(I, d, u) + Dur(I, u, d) + I.service[u + 1]
           IN  /\ BelowMax(vt.shiftDuration)
               /\ Exceeds(Duration(I, vt, s) + dur + I.depotService[d + 1],
                          vt.shiftDuration)

\* tripCost: distance of the round trip from the reload depot minus prize.
MultiTripCost(I, u, r) ==
    LET d == RouteVT(I, r).reloadDepots[1]
    IN  Dist(I, d, u) + Dist(I, u, d) - I.prize[u + 1]

RECURSIVE MultiTripBest(_, _, _, _, _)
\* The loop over the routes: best is [cost, route].
MultiTripBest(I, rts, u, r, best) ==
    IF r = NumVehicles(I) THEN best
    ELSE IF MultiTripSkips(I, rts, u, r)
    THEN MultiTripBest(I, rts, u, r + 1, best)
    ELSE MultiTripBest(I, rts, u, r + 1,
             IF MultiTripCost(I, u, r) < best.cost
             THEN [cost |-> MultiTripCost(I, u, r), route |-> r] ELSE best)

\* The body of the loop of improveWithMultiTrip for client u: the route that
\* receives the new trip, or NoRoute.
MultiTripRoute(I, rts, u) ==
    IF RouteOf(I, rts, u) # NoRoute \/ I.prize[u + 1] <= 0 THEN NoRoute
    ELSE LET best == MultiTripBest(I, rts, u, 0,
                                   [cost |-> 0, route |-> NoRoute])
         IN  IF best.route # NoRoute /\ best.cost < 0 THEN best.route
             ELSE NoRoute

\* The routes after the new trip (reload depot, u) is put before the end
\* depot of route r.
MultiTripInsert(I, rts, u, r) ==
    [rts EXCEPT ![r] = InsertAt(rts[r], RouteSize(rts[r]) - 1,
                                <<RouteVT(I, r).reloadDepots[1], u>>)]

(***************************************************************************)
(* SearchSpace::markPromising(node): the client of the node and its        *)
(* client neighbours in the route become promising.                        *)
(***************************************************************************)
MarkPromising(I, rts, prom, N) ==
    LET s == rts[N.r]
        around == {k \in {N.idx - 1, N.idx, N.idx + 1} : k >= 1 /\ k <= Len(s)}
    IN  prom \cup {s[k] : k \in {x \in around : ~IsDepotLoc(I, s[x])}}

(***************************************************************************)
(* LocalSearch::applyNodeOps(U, V) and applyRouteOps(U, V): the first      *)
(* operator, in list order, whose evaluate() is negative, as               *)
(* [applied, routes, delta].                                               *)
(***************************************************************************)
NoMove(rts) == [applied |-> FALSE, routes |-> rts, delta |-> 0]

\* `if (deltaCost < 0) { apply; return true; }`, or else the rest of the loop.
IfImproving(delta, moved, otherwise) ==
    IF delta < 0
    THEN [applied |-> TRUE, routes |-> moved, delta |-> delta]
    ELSE otherwise

RECURSIVE FirstNodeOp(_, _, _, _, _)
FirstNodeOp(I, rts, ops, U, V) ==
    IF ops = <<>> THEN NoMove(rts)
    ELSE IfImproving(NodeOpEvaluate(I, rts, Head(ops), U, V),
                     NodeOpMove(I, rts, Head(ops), U, V),
                     FirstNodeOp(I, rts, Tail(ops), U, V))

\* The same-vehicle guard of applyNodeOps: the pair is skipped.
NodeOpsGuard(I, rts, U, V) ==
    /\ U.r # V.r
    /\ \/ WouldViolateSameVehicle(I, rts, NodeAt(RouteVT(I, U.r), rts[U.r], U.idx),
                                  U.r, V.r)
       \/ WouldViolateSameVehicle(I, rts, NodeAt(RouteVT(I, V.r), rts[V.r], V.idx),
                                  V.r, U.r)

ApplyNodeOps(I, rts, ops, U, V) ==
    IF NodeOpsGuard(I, rts, U, V) THEN NoMove(rts)
    ELSE FirstNodeOp(I, rts, ops, U, V)

RECURSIVE ApplyRouteOps(_, _, _, _, _)
ApplyRouteOps(I, rts, ops, rU, rV) ==
    IF ops = <<>> THEN NoMove(rts)
    ELSE IfImproving(RouteOpEvaluate(I, rts, Head(ops), rU, rV),
                     RouteOpMove(I, rts, Head(ops), rU, rV),
                     ApplyRouteOps(I, rts, Tail(ops), rU, rV))

\* A variant that takes the last empty route of the vehicle type.
LastEmpty(I, rts, t) ==
    IF \E r \in RouteIdxs(I) : RouteVehType(I, r) = t /\ rts[r] = <<>>
    THEN CHOOSE r \in RouteIdxs(I) :
            /\ RouteVehType(I, r) = t /\ rts[r] = <<>>
            /\ \A q \in RouteIdxs(I) :
                  (RouteVehType(I, q) = t /\ rts[q] = <<>>) => q <= r
    ELSE NoRoute

\* The first empty route of vehicle type t, or NoRoute (std::find_if).
FirstEmpty(I, rts, t) ==
    IF \E r \in RouteIdxs(I) : RouteVehType(I, r) = t /\ rts[r] = <<>>
    THEN MinOf({r \in RouteIdxs(I) : RouteVehType(I, r) = t /\ rts[r] = <<>>})
    ELSE NoRoute

\* `if (applyNodeOps(U, (*empty)[0])) break;`, or else the rest of the loop.
IfApplied(res, target, otherwise) ==
    IF res.applied
    THEN [applied |-> TRUE, routes |-> res.routes, delta |-> res.delta,
          target |-> target]
    ELSE otherwise

RECURSIVE EmptyRouteMove(_, _, _, _, _)
\* The loop of applyEmptyRouteMoves over vehTypeOrder: the first accepted
\* move of U into the first empty route of a vehicle type, as
\* [applied, routes, delta, target].
EmptyRouteMove(I, rts, ops, U, types) ==
    IF types = <<>>
    THEN [applied |-> FALSE, routes |-> rts, delta |-> 0, target |-> NoRoute]
    ELSE IF FirstEmpty(I, rts, Head(types)) = NoRoute
    THEN EmptyRouteMove(I, rts, ops, U, Tail(types))
    ELSE IfApplied(ApplyNodeOps(I, rts, ops, U,
                                Node(FirstEmpty(I, rts, Head(types)), 0)),
                   FirstEmpty(I, rts, Head(types)),
                   EmptyRouteMove(I, rts, ops, U, Tail(types)))

(***************************************************************************)
(* LocalSearch::applyGroupMoves: the routed members of the group in order  *)
(* of increasing removal cost.  std::sort is not stable, so members of     *)
(* equal cost may come out in any order: SortByCost is the set of all the  *)
(* orders the sort may give.                                               *)
(***************************************************************************)
GroupInSol(I, rts, g) ==
    SelectSeq(I.groups[g].clients, LAMBDA c : RouteOf(I, rts, c) # NoRoute)

RECURSIVE SortByCost(_, _, _)
SortByCost(I, rts, cs) ==
    IF cs = <<>> THEN {<<>>}
    ELSE LET cost(c) == RemoveCostClient(I, rts, c)
             m == MinOf({cost(cs[k]) : k \in 1..Len(cs)})
         IN  UNION {{<<cs[k]>> \o rest :
                        rest \in SortByCost(I, rts, RemoveAt(cs, k))} :
                    k \in {j \in 1..Len(cs) : cost(cs[j]) = m}}

(***************************************************************************)
(* The inputs: every valid solution over the clients of the instance with  *)
(* one trip per route, and the multi-trip solutions the instance names.    *)
(***************************************************************************)
Canonical(I, w) ==
    /\ \A r1, r2 \in RouteIdxs(I) :
          r1 # r2 => Range(w[r1]) \cap Range(w[r2]) = {}
    /\ \A r \in RouteIdxs(I) :
          (w[r] # <<>> /\ r > 0 /\ RouteVehType(I, r - 1) = RouteVehType(I, r))
              => w[r - 1] # <<>>

Assignments(I) ==
    {w \in [RouteIdxs(I) -> SeqsOver(I.inputClients)] : Canonical(I, w)}

\* A working assignment written as the sequence of its routes' interiors.
AsRoutes(I, seqs) == [r \in RouteIdxs(I) |-> seqs[r + 1]]

InputSolutions(I) ==
    {Unload(I, w) : w \in Assignments(I)}
      \cup {Unload(I, AsRoutes(I, seqs)) : seqs \in I.extraInputs}

(***************************************************************************)
(* build_neighbours(data, numNeighbours, weightWaitTime, weightTimeWarp,   *)
(* symmetricProximity): the proximity matrix and the neighbour lists.      *)
(* Locations are numbered from 0, depots first.  The weights are fractions *)
(* over a common denominator.                                              *)
(***************************************************************************)
\* The largest number of neighbours asked for, besides the default.
MaxNumK == 3
\* The default of the numNeighbours argument.
DefaultNumNeighbours == 60
\* The defaults weightWaitTime = 0.2 = 1/5 and weightTimeWarp = 1.0 = 5/5.
DefaultWeights == [den |-> 5, waitTime |-> 1, timeWarp |-> 5]

(***************************************************************************)
(* The doubles of build_neighbours.  Every value the nine steps compute is *)
(* a whole number of fifths that was rounded to 53 bits: a double d is     *)
(* held as d = (fifths + ulps * 2^(exp - 52)) / 5, where fifths / 5 is the *)
(* value before any rounding and ulps / 5 counts the units 2^(exp - 52) by *)
(* which the roundings moved it.                                           *)
(***************************************************************************)
Dbl(fifths, ulps, exp) == [fifths |-> fifths, ulps |-> ulps, exp |-> exp]
\* static_cast<double> of a whole number.
FromInt(c) == Dbl(5 * c, 0, 0)
\* The binary exponent of std::numeric_limits<double>::max().  The doubles
\* computed from the integers here have smaller exponents.
TopExponent == 1023
\* std::numeric_limits<double>::max() and ::infinity(): the largest double
\* of the top binade and the value past it.  Nothing is added to them.
DblMax == Dbl(0, 0, TopExponent)
DblInfinity == Dbl(0, 0, TopExponent + 1)
\* 0 for a double computed from the integers, else its exponent.
Beyond(x) == IF x.exp >= TopExponent THEN x.exp ELSE 0

\* operator< of two doubles: every computed double is less than max(),
\* which is less than infinity.
DblLess(x, y) ==
    LET m == Min2(x.exp, y.exp)
    IN  IF Beyond(x) # 0 \/ Beyond(y) # 0 THEN Beyond(x) < Beyond(y)
        ELSE \/ x.fifths < y.fifths
             \/ /\ x.fifths = y.fifths
                /\ x.ulps * 2^(x.exp - m) < y.ulps * 2^(y.exp - m)
DblEq(x, y) == ~DblLess(x, y) /\ ~DblLess(y, x)
DblLeq(x, y) == ~DblLess(y, x)
\* std::min(x, y)
DblMin(x, y) == IF DblLess(y, x) THEN y ELSE x

\* The binary exponent of f / 5 for f > 0: the e with 2^e <= f / 5 < 2^(e+1).
RECURSIVE ExponentUp(_, _)
ExponentUp(f, e) == IF 5 * 2^(e + 1) <= f THEN ExponentUp(f, e + 1) ELSE e
RECURSIVE ExponentDown(_, _)
ExponentDown(f, k) == IF 5 <= f * 2^k THEN 0 - k ELSE ExponentDown(f, k + 1)
BinaryExponent(f) == IF f >= 5 THEN ExponentUp(f, 0) ELSE ExponentDown(f, 1)

\* (f * 2^(52 - e)) mod 5: five times the part of (f / 5) / 2^(e - 52) past
\* the point.  The whole part is odd exactly when this residue is.
Residue(f, e) == ((f % 5) * <<1, 2, 4, 3>>[((52 - e) % 4) + 1]) % 5

\* The whole number nearest to num / den, the even one of two that are
\* equally near; odd tells whether the number it is added to is odd.
RoundHalfEven(num, den, odd) ==
    LET q == num \div den
        rem == num - q * den
    IN  IF 2 * rem < den THEN q
        ELSE IF 2 * rem > den THEN q + 1
        ELSE IF (odd + q) % 2 = 0 THEN q ELSE q + 1

\* 0.2 * x for a whole x > 0: the double 0.2 is (1 + 2^-54) / 5, so the
\* product is x / 5 + (x / 5) * 2^-54 before it is rounded.
TimesFifth(x) ==
    LET e == BinaryExponent(x)
        r == Residue(x, e)
        up == IF e >= 0 - 2
              THEN RoundHalfEven(r * 2^(2 + e) + x, 5 * 2^(2 + e), r % 2)
              ELSE RoundHalfEven(r + x * 2^(0 - 2 - e), 5, r % 2)
    IN  Dbl(x, 5 * up - r, e)

\* weight * x for the weight num / den, which is a whole number or 1 / 5.
Times(num, den, x) ==
    IF num % den = 0 THEN FromInt((num \div den) * x) ELSE TimesFifth(x)

\* The sum of the double d and a whole number c, rounded.  It is exact when
\* it does not leave the binade of d upwards.
PlusInt(d, c) ==
    LET f == d.fifths + 5 * c
        sign == IF f < 0 THEN 0 - 1 ELSE 1
        e == BinaryExponent(sign * f)
        r == Residue(sign * f, e)
        up == IF d.ulps = 0 THEN (IF r <= 2 THEN 0 ELSE 1)
              ELSE RoundHalfEven(r * 2^(e - d.exp) + sign * d.ulps,
                                 5 * 2^(e - d.exp), r % 2)
    IN  IF f = 0 THEN Dbl(0, d.ulps, d.exp)
        ELSE IF d.ulps # 0 /\ e <= d.exp THEN Dbl(f, d.ulps, d.exp)
        ELSE IF 5 * up - r = 0 THEN Dbl(f, 0, 0)
        ELSE Dbl(f, sign * (5 * up - r), e)

\* A vehicle type as build_neighbours reads it.
NbVehType(unitDist, unitDur, profile) ==
    [unitDistanceCost |-> unitDist, unitDurationCost |-> unitDur,
     profile |-> profile]
\* A client group.
NbGroup(clients, mutuallyExclusive) ==
    [clients |-> clients, mutuallyExclusive |-> mutuallyExclusive]

\* Three clients at plain distances; clients 1 and 2 are close, 3 is far.
NbPlainDist == << <<0, 4, 4, 9>>,
                  <<4, 0, 1, 7>>,
                  <<4, 1, 0, 6>>,
                  <<9, 7, 6, 0>> >>
NbPlain ==
    [numDepots |-> 1, numClients |-> 3,
     dist |-> <<NbPlainDist>>, dur |-> <<NbPlainDist>>,
     vehicleTypes |-> <<NbVehType(1, 0, 0)>>,
     twEarly |-> <<0, 0, 0, 0>>,
     twLate |-> <<DurationMax, DurationMax, DurationMax, DurationMax>>,
     service |-> <<0, 0, 0, 0>>, prize |-> <<0, 0, 0, 0>>,
     groups |-> <<>>]

\* Four clients, distances that differ by direction.
NbAsymDist == << <<0, 3, 3, 3, 3>>,
                 <<3, 0, 2, 9, 4>>,
                 <<3, 8, 0, 1, 7>>,
                 <<3, 1, 6, 0, 5>>,
                 <<3, 9, 2, 8, 0>> >>
NbAsym ==
    [numDepots |-> 1, numClients |-> 4,
     dist |-> <<NbAsymDist>>, dur |-> <<NbAsymDist>>,
     vehicleTypes |-> <<NbVehType(1, 0, 0)>>,
     twEarly |-> <<0, 0, 0, 0, 0>>,
     twLate |-> <<DurationMax, DurationMax, DurationMax, DurationMax,
                  DurationMax>>,
     service |-> <<0, 0, 0, 0, 0>>, prize |-> <<0, 0, 0, 0, 0>>,
     groups |-> <<>>]

\* NbPlain with clients 1 and 2 in a mutually exclusive group, and clients
\* 2 and 3 in a group that is not.
NbGrouped ==
    [NbPlain EXCEPT
        !.groups = <<NbGroup(<<1, 2>>, TRUE), NbGroup(<<2, 3>>, FALSE)>>]

\* Four clients, three of them in one mutually exclusive group.
NbGroupOfThree ==
    [NbAsym EXCEPT !.groups = <<NbGroup(<<1, 2, 4>>, TRUE)>>]

\* Time windows, service durations and prizes.
NbWindows ==
    [NbPlain EXCEPT
        !.twEarly = <<0, 0, 20, 5>>,
        !.twLate = <<Limit(100), Limit(6), Limit(30), Limit(8)>>,
        !.service = <<0, 2, 3, 1>>,
        !.prize = <<0, 0, 3, 8>>]

\* Two depots, three clients, two profiles and two kinds of vehicle.
NbFleetDist == << <<0, 2, 4, 4, 6>>,
                  <<2, 0, 5, 3, 2>>,
                  <<4, 5, 0, 3, 8>>,
                  <<4, 3, 3, 0, 2>>,
                  <<6, 2, 8, 2, 0>> >>
NbFleetDur == << <<0, 1, 2, 2, 3>>,
                 <<1, 0, 9, 1, 1>>,
                 <<2, 9, 0, 6, 1>>,
                 <<2, 1, 6, 0, 4>>,
                 <<3, 1, 1, 4, 0>> >>
NbFleet ==
    [numDepots |-> 2, numClients |-> 3,
     dist |-> <<NbFleetDist, NbAsymDist>>, dur |-> <<NbFleetDur, NbFleetDist>>,
     vehicleTypes |-> <<NbVehType(1, 0, 0), NbVehType(0, 2, 0),
                        NbVehType(1, 1, 1)>>,
     twEarly |-> <<0, 0, 0, 10, 0>>,
     twLate |-> <<Limit(50), Limit(50), Limit(5), Limit(20), Limit(40)>>,
     service |-> <<0, 0, 1, 1, 1>>, prize |-> <<0, 0, 0, 0, 0>>,
     groups |-> <<>>]

\* A single client.
NbSingle ==
    [numDepots |-> 1, numClients |-> 1,
     dist |-> << << <<0, 3>>, <<3, 0>> >> >>,
     dur |-> << << <<0, 3>>, <<3, 0>> >> >>,
     vehicleTypes |-> <<NbVehType(1, 0, 0)>>,
     twEarly |-> <<0, 0>>, twLate |-> <<DurationMax, DurationMax>>,
     service |-> <<0, 0>>, prize |-> <<0, 0>>,
     groups |-> <<>>]

\* Waiting makes clients 2 and 3 equally far from client 1 in exact
\* arithmetic, 0 + 6/5 and 1 + 1/5; the doubles differ, and 3 comes first.
NbRounded ==
    [numDepots |-> 1, numClients |-> 3,
     dist |-> << << <<0, 9, 9, 9>>, <<9, 0, 0, 1>>,
                    <<9, 9, 0, 9>>, <<9, 9, 9, 0>> >> >>,
     dur |-> << << <<0, 0, 0, 0>>, <<0, 0, 5, 0>>,
                   <<0, 5, 0, 0>>, <<0, 0, 0, 0>> >> >>,
     vehicleTypes |-> <<NbVehType(1, 0, 0)>>,
     twEarly |-> <<0, 0, 11, 1>>,
     twLate |-> <<Limit(100), Limit(0), Limit(100), Limit(100)>>,
     service |-> <<0, 0, 0, 0>>, prize |-> <<0, 0, 0, 0>>,
     groups |-> <<>>]

\* Clients 1 and 2 exclude each other and client 3 is so far from client 1
\* that its cost is above 2^27: only max() and infinity are larger.
NbFar ==
    [NbPlain EXCEPT !.dist[1][2][4] = 250000000,
                    !.groups = <<NbGroup(<<1, 2>>, TRUE)>>]

NbInstances ==
    <<NbPlain, NbAsym, NbGrouped, NbGroupOfThree, NbWindows, NbFleet, NbSingle,
      NbRounded, NbFar>>

NbLocs(data) == 0 .. (data.numDepots + data.numClients - 1)
NbClients(data) == data.numDepots .. (data.numDepots + data.numClients - 1)

\* Step 1: the unique (unitDistCost, unitDurCost, profile) combinations.
UniqueEdgeCosts(data) ==
    {<<vt.unitDistanceCost, vt.unitDurationCost, vt.profile>> :
        vt \in Range(data.vehicleTypes)}

\* Step 2: the minimum edge cost over all vehicle types.
EdgeCost(data, i, j) ==
    IF UniqueEdgeCosts(data) = {} THEN 0
    ELSE MinOf({t[1] * data.dist[t[3] + 1][i + 1][j + 1]
                  + t[2] * data.dur[t[3] + 1][i + 1][j + 1] :
                t \in UniqueEdgeCosts(data)})

\* Step 3: the minimum duration over all profiles.
MinDuration(data, i, j) ==
    MinOf({data.dur[p][i + 1][j + 1] : p \in 1..Len(data.dur)})

\* Step 4: a client's value of a per-location array, 0 for a depot.
ClientValue(data, arr, loc) == IF loc < data.numDepots THEN 0 ELSE arr[loc + 1]
\* The same for late[loc].
ClientLate(data, loc) ==
    IF loc < data.numDepots THEN Limit(0) ELSE data.twLate[loc + 1]

\* edgeCosts[i][j] += weight * x, the product and the sum each rounded.  A
\* weight of 1 / 5 is that of the wait time, which is added to a whole number.
PlusWeighted(d, num, den, x) ==
    IF num % den = 0 THEN PlusInt(d, (num \div den) * x)
    ELSE PlusInt(Times(num, den, x), d.fifths \div 5)

\* Step 5: the edge cost less the prize of j, plus the weighted wait time
\* and then the weighted time warp, as the double the code is left with.
PenalisedEdgeCost(data, w, i, j) ==
    LET early(l) == ClientValue(data, data.twEarly, l)
        late(l) == ClientLate(data, l)
        service(l) == ClientValue(data, data.service, l)
        prize(l) == ClientValue(data, data.prize, l)
        ahead == early(j) - MinDuration(data, i, j) - service(i)
        \* early[j] - minDuration[i][j] - service[i] - late[i]; it is read
        \* only when it is positive.
        minWait == Overrun(ahead, late(i))
        \* early[i] + service[i] + minDuration[i][j] - late[j], likewise.
        minTw == Overrun(early(i) + service(i) + MinDuration(data, i, j),
                         late(j))
        lessPrize == FromInt(EdgeCost(data, i, j) - prize(j))
        waited == IF minWait > 0
                  THEN PlusWeighted(lessPrize, w.waitTime, w.den, minWait)
                  ELSE lessPrize
    IN  IF minTw > 0
        THEN PlusWeighted(waited, w.timeWarp, w.den, minTw)
        ELSE waited

\* A variant of step 6 that never symmetrises.
SymmetrizedNever(data, w, symmetricProximity, i, j) ==
    PenalisedEdgeCost(data, w, i, j)

\* Step 6: the smaller of the two directions when symmetricProximity is set.
Symmetrized(data, w, symmetricProximity, i, j) ==
    IF symmetricProximity /\ i # j
    THEN DblMin(PenalisedEdgeCost(data, w, i, j),
                PenalisedEdgeCost(data, w, j, i))
    ELSE PenalisedEdgeCost(data, w, i, j)

\* Step 7: i and j are distinct clients of one mutually exclusive group.
InExclusiveGroup(data, i, j) ==
    /\ i # j
    /\ \E g \in 1..Len(data.groups) :
          /\ data.groups[g].mutuallyExclusive
          /\ i \in Range(data.groups[g].clients)
          /\ j \in Range(data.groups[g].clients)

\* Steps 7 and 8: the final entry edgeCosts[i][j].
Proximity(data, w, symmetricProximity, i, j) ==
    IF i = j \/ i < data.numDepots \/ j < data.numDepots THEN DblInfinity
    ELSE IF InExclusiveGroup(data, i, j) THEN DblMax
    ELSE Symmetrized(data, w, symmetricProximity, i, j)

\* Step 9: k = std::min(numNeighbours, numClients - 1) in size_t, where
\* numClients - 1 wraps to the largest value when there is no client.
NumK(data, numNeighbours) ==
    IF data.numClients = 0 THEN numNeighbours
    ELSE Min2(numNeighbours, data.numClients - 1)

\* operator< of std::pair<double, size_t>.
PairLess(p, q) ==
    DblLess(p[1], q[1]) \/ (~DblLess(q[1], p[1]) /\ p[2] < q[2])

\* A variant of the selection that takes the first n clients by index.
RECURSIVE PartialSortByIndex(_, _)
PartialSortByIndex(pairs, n) ==
    IF n = 0 \/ pairs = {} THEN <<>>
    ELSE LET least == CHOOSE p \in pairs : \A q \in pairs : p[2] <= q[2]
         IN  <<least[2]>> \o PartialSortByIndex(pairs \ {least}, n - 1)

\* std::partial_sort of the pairs and the push_back of the first n locations.
RECURSIVE PartialSort(_, _)
PartialSort(pairs, n) ==
    IF n = 0 \/ pairs = {} THEN <<>>
    ELSE LET least == CHOOSE p \in pairs :
                          \A q \in pairs \ {p} : PairLess(p, q)
         IN  <<least[2]>> \o PartialSort(pairs \ {least}, n - 1)

\* The pairs (edgeCosts[i][j], j) of client i.
Proximities(data, w, symmetricProximity, i) ==
    {<<Proximity(data, w, symmetricProximity, i, j), j>> :
        j \in NbClients(data) \ {i}}

\* The ProblemData of a driver as build_neighbours reads it: one profile,
\* no cost per unit of duration, every group mutually exclusive.
AsProximityData(I) ==
    [numDepots |-> I.numDepots, numClients |-> I.numClients,
     dist |-> <<I.dist>>, dur |-> <<I.dur>>,
     vehicleTypes |-> [t \in 1..Len(I.vehicleTypes) |->
                          NbVehType(I.vehicleTypes[t].unitDistanceCost, 0, 0)],
     twEarly |-> I.twEarly, twLate |-> I.twLate,
     service |-> I.service, prize |-> I.prize,
     groups |-> [g \in 1..Len(I.groups) |->
                    NbGroup(I.groups[g].clients, TRUE)]]

\* The neighbour lists as the driver holds them, indexed by location + 1.
AsNeighbours(lists) == [k \in 1..Cardinality(DOMAIN lists) |-> lists[k - 1]]

\* The neighbour lists build_neighbours returns, one per location.
BuildNeighboursOf(data, numNeighbours, w, symmetricProximity) ==
    [i \in NbLocs(data) |->
        IF i < data.numDepots THEN <<>>
        ELSE PartialSort(Proximities(data, w, symmetricProximity, i),
                         NumK(data, numNeighbours))]

(***************************************************************************)
(* The construction boundary of the binding: create_cost_evaluator_nif and *)
(* the assembly of a driver, from the default operators or from operator   *)
(* names.                                                                  *)
(***************************************************************************)
\* The longest list of load penalties, and of operator names, that is tried.
MaxPenalties == 2
MaxOpNames == 1

\* A term handed over by the host: a float, an integer that fits 64 bits, an
\* integer that does not, or an atom.
Term(kind, val) == [kind |-> kind, val |-> val]
Terms ==
    {Term("int", v) : v \in {0 - 1, 0, 2}}
      \cup {Term("float", v) : v \in {0 - 1, 2}}
      \cup {Term("big", 1), Term("atom", 0)}
\* A list of terms.
ListTerm(items) == [kind |-> "list", val |-> items]
\* The value of a key that the options map does not have.
Absent == Term("absent", 0)

\* get_number_as_double: enif_get_double, then enif_get_int64.
GetNumberAsDouble(term) ==
    IF term.kind \in {"float", "int"}
    THEN [ok |-> TRUE, val |-> term.val]
    ELSE [ok |-> FALSE, val |-> 0]

RECURSIVE AllNumbers(_)
\* The loop over load_penalties: FALSE when an element is not a number.
AllNumbers(list) ==
    IF list = <<>> THEN TRUE
    ELSE GetNumberAsDouble(Head(list)).ok /\ AllNumbers(Tail(list))

Failed(message) == [ok |-> FALSE, error |-> message]

\* A variant of the validation that looks at the load penalties only.
ValidatePenaltiesLoadOnly(loads, tw, dist) ==
    IF \E k \in 1..Len(loads) : loads[k] < 0
    THEN Failed("Load penalties must be non-negative")
    ELSE [ok |-> TRUE,
          evaluator |-> [loadPenalties |-> loads, twPenalty |-> tw,
                         distPenalty |-> dist]]

\* The validation of the decoded penalties and the creation of the resource.
ValidatePenalties(loads, tw, dist) ==
    IF \E k \in 1..Len(loads) : loads[k] < 0
    THEN Failed("Load penalties must be non-negative")
    ELSE IF tw < 0 \/ dist < 0
    THEN Failed("Penalties must be non-negative")
    ELSE [ok |-> TRUE,
          evaluator |-> [loadPenalties |-> loads, twPenalty |-> tw,
                         distPenalty |-> dist]]

\* create_cost_evaluator_nif(opts): opts.load_penalties is a list of terms,
\* Absent, or a term that is not a list; opts.tw_penalty and
\* opts.dist_penalty are a term or Absent.  tw_penalty and dist_penalty are
\* 1.0 when absent.
CreateCostEvaluatorOf(opts) ==
    LET list == IF opts.load_penalties.kind = "list"
                THEN opts.load_penalties.val ELSE <<>>
        loads == [k \in 1..Len(list) |-> GetNumberAsDouble(list[k]).val]
        tw == IF opts.tw_penalty.kind = "absent" THEN 1
              ELSE GetNumberAsDouble(opts.tw_penalty).val
        dist == IF opts.dist_penalty.kind = "absent" THEN 1
                ELSE GetNumberAsDouble(opts.dist_penalty).val
    IN  IF ~AllNumbers(list)
        THEN Failed("load_penalties must be a list of numbers")
        ELSE IF opts.tw_penalty.kind # "absent"
                  /\ ~GetNumberAsDouble(opts.tw_penalty).ok
        THEN Failed("tw_penalty must be a number")
        ELSE IF opts.dist_penalty.kind # "absent"
                  /\ ~GetNumberAsDouble(opts.dist_penalty).ok
        THEN Failed("dist_penalty must be a number")
        ELSE ValidatePenalties(loads, tw, dist)

\* search::supports<Op>(data).
Supports(I, opName) ==
    CASE opName = "swap_tails" -> NumVehicles(I) > 1
      [] opName = "relocate_with_depot" ->
            \E t \in 1..Len(I.vehicleTypes) :
                I.vehicleTypes[t].reloadDepots # <<>>
      [] opName = "swap_routes" -> NumVehicleTypes(I) > 1
      [] OTHER -> TRUE

\* The node operator a name of local_search_with_operators_nif stands for,
\* or "" for a name it does not know.
NodeOperatorNamed(name) ==
    CASE name \in {"exchange10", "relocate"} -> "exchange10"
      [] name \in {"exchange11", "swap11"} -> "exchange11"
      [] name \in {"exchange20", "relocate2"} -> "exchange20"
      [] name \in {"exchange21", "swap21"} -> "exchange21"
      [] name \in {"exchange22", "swap22"} -> "exchange22"
      [] name \in {"exchange30", "relocate3"} -> "exchange30"
      [] name \in {"exchange31", "swap31"} -> "exchange31"
      [] name \in {"exchange32", "swap32"} -> "exchange32"
      [] name \in {"exchange33", "swap33"} -> "exchange33"
      [] name \in {"swap_tails", "relocate_with_depot"} -> name
      [] OTHER -> ""
RouteOperatorNamed(name) ==
    IF name \in {"swap_star", "swap_routes"} THEN name ELSE ""

\* A variant of the assembly from names that adds supported operators only.
WithOperatorsSupported(I, node_ops, route_ops) ==
    [ok |-> TRUE,
     nodeOps |-> SelectSeq([k \in 1..Len(node_ops) |->
                               NodeOperatorNamed(node_ops[k])],
                           LAMBDA o : o # "" /\ Supports(I, o)),
     routeOps |-> SelectSeq([k \in 1..Len(route_ops) |->
                                RouteOperatorNamed(route_ops[k])],
                            LAMBDA o : o # "" /\ Supports(I, o))]

\* local_search_with_operators_nif: the driver it assembles from the names,
\* one operator per known name, in the order given.
WithOperators(I, node_ops, route_ops) ==
    [ok |-> TRUE,
     nodeOps |-> SelectSeq([k \in 1..Len(node_ops) |->
                               NodeOperatorNamed(node_ops[k])],
                           LAMBDA o : o # ""),
     routeOps |-> SelectSeq([k \in 1..Len(route_ops) |->
                                RouteOperatorNamed(route_ops[k])],
                            LAMBDA o : o # "")]

\* LocalSearchResource::LocalSearchResource: the default operators, those
\* with a support precondition only when it holds.
DefaultOperators(I) ==
    [ok |-> TRUE,
     nodeOps |-> SelectSeq(<<"exchange10", "exchange20", "exchange11",
                             "exchange21", "exchange22", "swap_tails",
                             "relocate_with_depot">>,
                           LAMBDA o : Supports(I, o)),
     routeOps |-> SelectSeq(<<"swap_routes">>, LAMBDA o : Supports(I, o))]

(***************************************************************************)
(* The state of one driver (LocalSearchResource and its LocalSearch).      *)
(***************************************************************************)
VARIABLES
    inst,              \* the ProblemData the driver was built for
    clientOrder,       \* searchSpace_.clientOrder(), as left by shuffle()
    nodeOps,           \* the node operators, in their shuffled order
    routeOps,          \* the route operators, in their shuffled order
    routeOrder,        \* searchSpace_.routeOrder()
    vehTypeOrder,      \* searchSpace_.vehTypeOrder()
    neighbours,        \* searchSpace_.neighbours(): location -> clients
    routes,            \* solution_.routes: slot -> interior node sequence
    nodes,             \* solution_.nodes: client -> slot of Node::route()
    cached,            \* slot -> penalised cost as of the last Route::update()
    promising,         \* searchSpace_'s promising clients
    lastTestedNodes,   \* location -> numUpdates_ at its last visit, or -1
    lastTestedRoutes,  \* slot -> numUpdates_ at its last sweep, or -1
    lastUpdated,       \* slot -> numUpdates_ at its last update
    numUpdates,        \* numUpdates_
    searchCompleted,   \* searchCompleted_
    pc,                \* where the running public operation is
    op,                \* the public operation: "call", "search", "intensify"
    exhaustive,        \* the exhaustive argument of the call
    fr,                \* the locals of the running operation
    input,             \* the solution passed in
    output,            \* the solution returned
    runs,              \* public operations completed since the last set-up
    lastMove,          \* costBefore, deltaCost, costAfter of the last operator move
    lastChange,        \* the last change of the solution, with the total
                       \* penalised cost before and after it
    seen,              \* node-pass states met at the start of earlier steps
    nbArgs,            \* the arguments of a build_neighbours call
    nbResult,          \* the neighbour lists it returned
    nifCall,           \* a call of the binding: its name and arguments
    nifResult,         \* what the call returned
    searchNodes,       \* heap node -> its route() and idx() fields
    searchRoutes,      \* route resource -> its node list and ownedNodes
    nodeHandles,       \* node resource -> node, owned, parentRoute
    rngs,              \* RNG resource -> the four words of its state
    rngCalls,          \* the calls on RNG resources that returned, with
                       \* their results
    perturbationManagers  \* PerturbationManager resource -> its params and
                          \* numPerturbations

vars == <<inst, clientOrder, nodeOps, routeOps, routeOrder, vehTypeOrder,
          neighbours, routes, nodes, cached, promising,
          lastTestedNodes, lastTestedRoutes, lastUpdated, numUpdates,
          searchCompleted, pc, op, exhaustive, fr, input, output, runs,
          lastMove, lastChange, seen, nbArgs, nbResult, nifCall, nifResult,
          searchNodes, searchRoutes, nodeHandles, rngs, rngCalls,
          perturbationManagers>>

\* The resources of the binding.
resources == <<searchNodes, searchRoutes, nodeHandles, rngs, rngCalls,
               perturbationManagers>>

\* The operator lists and the search space of the driver.
setup == <<clientOrder, nodeOps, routeOps, routeOrder, vehTypeOrder,
           neighbours>>
\* The calls of the binding.
binding == <<nbArgs, nbResult, nifCall, nifResult, resources>>

config == <<inst, setup, binding>>
call == <<op, exhaustive, input>>

\* The ProblemData of this driver.
D == [Instances[inst] EXCEPT !.routeOps = routeOps,
                             !.routeOrder = routeOrder,
                             !.vehTypeOrder = vehTypeOrder,
                             !.neighbours = neighbours]
\* The client the node pass is visiting.
CurU == clientOrder[fr.ci]

NoFrame ==
    [step |-> 0, ci |-> 1, vi |-> 1, lastTested |-> 0, ri |-> 1, rj |-> 0,
     mi |-> 0, gq |-> <<>>, gv |-> 0, nu |-> 0, pert |-> 0]

\* No call of the binding is under way.
NifIdle == [fn |-> "none", done |-> TRUE]

\* No call of build_neighbours is under way.
NbIdle == [data |-> 0, numNeighbours |-> 0, symmetricProximity |-> TRUE,
           done |-> TRUE]

\* No resource was created.
NoResources ==
    /\ searchNodes = <<>>
    /\ searchRoutes = <<>>
    /\ nodeHandles = <<>>
    /\ rngs = <<>>
    /\ rngCalls = {}
    /\ perturbationManagers = <<>>

\* The driver after construction.
DriverInit ==
    /\ inst \in 1..Len(Instances)
    /\ clientOrder \in Instances[inst].clientOrders
    /\ routeOrder = Instances[inst].routeOrder
    /\ vehTypeOrder = Instances[inst].vehTypeOrder
    /\ neighbours = Instances[inst].neighbours
    /\ nodeOps = <<>>
    /\ routeOps = <<>>
    /\ routes = EmptyRoutes(Instances[inst])
    /\ nodes = Owners(Instances[inst], routes)
    /\ cached = [r \in RouteIdxs(Instances[inst]) |-> 0]
    /\ promising = {}
    /\ lastTestedNodes = [c \in 0 .. (NumLocations(Instances[inst]) - 1) |-> 0]
    /\ lastTestedRoutes = [r \in RouteIdxs(Instances[inst]) |-> 0]
    /\ lastUpdated = [r \in RouteIdxs(Instances[inst]) |-> 0]
    /\ numUpdates = 0
    /\ searchCompleted = FALSE
    /\ pc = "idle"
    /\ op = "none"
    /\ exhaustive = FALSE
    /\ fr = NoFrame
    /\ input = <<>>
    /\ output = <<>>
    /\ runs = 0
    /\ lastMove = [kind |-> "none", pair |-> <<>>, before |-> 0, delta |-> 0,
                   after |-> 0]
    /\ lastChange = [kind |-> "none", how |-> "", before |-> 0, after |-> 0]
    /\ seen = {}

Init ==
    /\ DriverInit
    /\ nbArgs = NbIdle
    /\ nbResult = <<>>
    /\ nifCall = NifIdle
    /\ nifResult = <<>>
    /\ NoResources

(***************************************************************************)
(* LocalSearch::update(U, V) after the routes became newRoutes.  Runs are   *)
(* followed up to MaxUpdates updates.                                      *)
(***************************************************************************)
\* A variant of update that leaves the cache of route V as it was.
updateFirstOnly(newRoutes, U, V) ==
    /\ numUpdates < MaxUpdates
    /\ numUpdates' = numUpdates + 1
    /\ searchCompleted' = FALSE
    /\ routes' = newRoutes
    /\ nodes' = Owners(D, newRoutes)
    /\ cached' = [cached EXCEPT ![U] = CostOf(D, U, newRoutes[U])]
    /\ lastUpdated' = [lastUpdated EXCEPT ![U] = numUpdates + 1,
                                          ![V] = numUpdates + 1]

\* A variant of update that stamps route U only.
updateStampsFirst(newRoutes, U, V) ==
    /\ numUpdates < MaxUpdates
    /\ numUpdates' = numUpdates + 1
    /\ searchCompleted' = FALSE
    /\ routes' = newRoutes
    /\ nodes' = Owners(D, newRoutes)
    /\ cached' = [cached EXCEPT ![U] = CostOf(D, U, newRoutes[U]),
                                ![V] = CostOf(D, V, newRoutes[V])]
    /\ lastUpdated' = [lastUpdated EXCEPT ![U] = numUpdates + 1]

update(newRoutes, U, V) ==
    /\ numUpdates < MaxUpdates
    /\ numUpdates' = numUpdates + 1
    /\ searchCompleted' = FALSE
    /\ routes' = newRoutes
    /\ nodes' = Owners(D, newRoutes)
    /\ cached' = [cached EXCEPT ![U] = CostOf(D, U, newRoutes[U]),
                                ![V] = CostOf(D, V, newRoutes[V])]
    /\ lastUpdated' = [lastUpdated EXCEPT ![U] = numUpdates + 1,
                                          ![V] = numUpdates + 1]

\* Nothing is applied: the working solution and its bookkeeping stay.
NoUpdate ==
    UNCHANGED <<routes, nodes, cached, lastUpdated, numUpdates, searchCompleted,
                promising, lastChange>>

\* The solution changes into newRoutes by a change of the given kind.
Changed(kind, how, newRoutes) ==
    lastChange' = [kind |-> kind, how |-> how,
                   before |-> TotalCost(D, routes),
                   after |-> TotalCost(D, newRoutes)]

\* costBefore / costAfter of applyNodeOps and applyRouteOps, read from the
\* routes' caches.
CachedPairCost(c, rU, rV) == c[rU] + (IF rU # rV THEN c[rV] ELSE 0)

(***************************************************************************)
(* LocalSearch::loadSolution(solution)                                     *)
(***************************************************************************)
loadSolution(sol) ==
    /\ lastTestedNodes' = [c \in DOMAIN lastTestedNodes |-> 0 - 1]
    /\ lastTestedRoutes' = [r \in DOMAIN lastTestedRoutes |-> 0 - 1]
    /\ lastUpdated' = [r \in DOMAIN lastUpdated |-> 0]
    /\ promising' = Clients(D)
    /\ numUpdates' = 0
    /\ routes' = Load(D, routes, nodes, sol).routes
    /\ nodes' = Load(D, routes, nodes, sol).route
    /\ cached' = [r \in RouteIdxs(D) |->
                    CostOf(D, r, Load(D, routes, nodes, sol).routes[r])]

\* A public operation o starts on solution sol.
Started(sol, o, exh, first) ==
    /\ loadSolution(sol)
    /\ input' = sol
    /\ op' = o
    /\ exhaustive' = exh
    /\ fr' = NoFrame
    /\ pc' = first
    /\ lastMove' = [kind |-> "none", pair |-> <<>>, before |-> 0, delta |-> 0,
                    after |-> 0]
    /\ lastChange' = [kind |-> "none", how |-> "", before |-> 0, after |-> 0]
    /\ UNCHANGED <<searchCompleted, output, runs, seen>>
Start(sol, o, exh, first) ==
    /\ Started(sol, o, exh, first)
    /\ UNCHANGED config

\* LocalSearch::operator()(solution, costEvaluator, exhaustive)
Call ==
    /\ pc = "idle" /\ "call" \in D.publicOps
    /\ \E sol \in InputSolutions(D), exh \in BOOLEAN :
          Start(sol, "call", exh, IF exh THEN "search" ELSE "perturb")

\* LocalSearch::search(solution, costEvaluator)
Search ==
    /\ pc = "idle" /\ "search" \in D.publicOps
    /\ \E sol \in InputSolutions(D) : Start(sol, "search", FALSE, "search")

\* LocalSearch::intensify(solution, costEvaluator)
Intensify ==
    /\ pc = "idle" /\ "intensify" \in D.publicOps
    /\ \E sol \in InputSolutions(D) :
          Start(sol, "intensify", FALSE, "intensify")

\* The exhaustive call run again on the solution it returned.
CallAgain ==
    /\ pc = "done" /\ runs < MaxRuns
    /\ op = "call" /\ exhaustive
    /\ Start(output, "call", TRUE, "search")

(***************************************************************************)
(* The set-up of the driver between public operations: shuffle,            *)
(* addNodeOperator, addRouteOperator and setNeighbours.                    *)
(***************************************************************************)
\* What the set-up calls leave alone.
working == <<routes, nodes, cached, promising, lastTestedNodes, lastTestedRoutes,
             lastUpdated, numUpdates, searchCompleted, pc, op, exhaustive,
             fr, input, output, lastMove, lastChange, seen>>

\* No public operation is running.
AtRest == pc \in {"idle", "done"}

\* rng.shuffle(first, last) may leave any permutation of the sequence.
Shuffled(s) ==
    {[k \in 1..Len(s) |-> s[p[k]]] :
        p \in {f \in [1..Len(s) -> 1..Len(s)] :
                  \A i, j \in 1..Len(s) : i # j => f[i] # f[j]}}

\* LocalSearch::shuffle(rng).  The number of perturbations that
\* perturbationManager_.shuffle draws is taken by PerturbMove from its range.
Shuffle ==
    /\ AtRest /\ "shuffle" \in D.publicOps
    /\ clientOrder' \in Shuffled(clientOrder)
    /\ routeOrder' \in Shuffled(routeOrder)
    /\ vehTypeOrder' \in Shuffled(vehTypeOrder)
    /\ nodeOps' \in Shuffled(nodeOps)
    /\ routeOps' \in Shuffled(routeOps)
    /\ runs' = 0
    /\ UNCHANGED <<inst, neighbours, working, binding>>

\* s is the start of t.
IsPrefix(s, t) == Len(s) <= Len(t) /\ SubSeq(t, 1, Len(s)) = s

\* The operators whose addition to ops gives the start of one of lists.
NextOperators(ops, lists) ==
    {l[Len(ops) + 1] : l \in {t \in lists : Len(ops) < Len(t)
                                            /\ IsPrefix(ops, t)}}

\* LocalSearch::addNodeOperator(op)
AddNodeOperator ==
    /\ AtRest
    /\ \E o \in NextOperators(nodeOps, Instances[inst].nodeOpLists) :
          nodeOps' = Append(nodeOps, o)
    /\ runs' = 0
    /\ UNCHANGED <<inst, clientOrder, routeOps, routeOrder, vehTypeOrder,
                   neighbours, working, binding>>

\* LocalSearch::addRouteOperator(op)
AddRouteOperator ==
    /\ AtRest
    /\ \E o \in NextOperators(routeOps, {Instances[inst].routeOps}) :
          routeOps' = Append(routeOps, o)
    /\ runs' = 0
    /\ UNCHANGED <<inst, clientOrder, nodeOps, routeOrder, vehTypeOrder,
                   neighbours, working, binding>>

\* The neighbour lists cut down to the first neighbour of every client.
FirstNeighbours(nb) ==
    [k \in 1..Len(nb) |-> IF nb[k] = <<>> THEN <<>> ELSE <<nb[k][1]>>]

\* LocalSearch::setNeighbours(neighbours)
SetNeighbours ==
    /\ AtRest /\ "setNeighbours" \in D.publicOps
    /\ neighbours' \in {Instances[inst].neighbours,
                        FirstNeighbours(Instances[inst].neighbours)}
    /\ runs' = 0
    /\ UNCHANGED <<inst, clientOrder, nodeOps, routeOps, routeOrder,
                   vehTypeOrder, working, binding>>

(***************************************************************************)
(* PerturbationManager::perturb: random clients are taken out of the       *)
(* solution, or put into it, whether or not that improves it.              *)
(***************************************************************************)
PerturbTo(new, touched, c) ==
    /\ Changed("perturb", "", new)
    /\ routes' = new
    /\ nodes' = Owners(D, new)
    /\ cached' = IF touched = NoRoute THEN cached
                 ELSE [cached EXCEPT ![touched] = CostOf(D, touched, new[touched])]
    /\ promising' = promising \cup {c}

PerturbInsert(ins, c) == PerturbTo(ins.routes, ins.route, c)

PerturbMove ==
    /\ pc = "perturb" /\ fr.pert < MaxPerturbations
    /\ \E c \in Clients(D) :
          IF RouteOf(D, routes, c) # NoRoute
          THEN PerturbTo(RouteRemove(routes, RouteOf(D, routes, c),
                                     IdxOf(D, routes, c)),
                         RouteOf(D, routes, c), c)
          ELSE PerturbInsert(SolutionInsert(D, routes, c, D.vehTypeOrder, TRUE),
                             c)
    /\ fr' = [fr EXCEPT !.pert = @ + 1]
    /\ UNCHANGED <<config, call, lastTestedNodes, lastTestedRoutes, lastUpdated,
                   numUpdates, searchCompleted, pc, output, runs, lastMove, seen>>

PerturbDone ==
    /\ pc = "perturb" /\ fr.pert >= MinPerturbations
    /\ pc' = "search"
    /\ UNCHANGED <<config, call, routes, nodes, cached, promising, lastTestedNodes,
                   lastTestedRoutes, lastUpdated, numUpdates, searchCompleted,
                   fr, output, runs, lastMove, lastChange, seen>>

(***************************************************************************)
(* LocalSearch::search(costEvaluator): the node pass.                      *)
(***************************************************************************)
static == <<inst, setup, op, exhaustive, input, output, runs, binding>>

\* update(U, V) followed by the marking of promising clients.
Accept(kind, how, newRoutes, rU, rV, prom) ==
    /\ update(newRoutes, rU, rV)
    /\ promising' = prom
    /\ Changed(kind, how, newRoutes)

\* Control and the locals move on.
Goto(p, f) == pc' = p /\ fr' = f

\* LocalSearch::markRequiredMissingAsPromising: the clients it marks.
RequiredMissing(I, rts) ==
    {c \in Clients(I) :
        /\ RouteOf(I, rts, c) = NoRoute
        /\ \/ I.required[c + 1]
           \/ /\ I.group[c + 1] # 0
              /\ I.groups[I.group[c + 1]].required
              /\ Head(I.groups[I.group[c + 1]].clients) = c}

\* What the rest of the node pass depends on when a step begins.
Snapshot ==
    [routes |-> routes,
     promising |-> promising,
     fresh |-> {c \in DOMAIN lastTestedNodes : lastTestedNodes[c] = 0 - 1},
     stale |-> {<<c, r>> \in (DOMAIN lastTestedNodes) \X (DOMAIN lastUpdated) :
                   lastUpdated[r] > lastTestedNodes[c]},
     later |-> fr.step > 0]

\* A variant in which the public search unloads right after the node pass.
AfterNodePassUnload ==
    IF op = "call"
    THEN Goto("intensify", [fr EXCEPT !.nu = numUpdates])
    ELSE Goto("unload", fr)

\* The node pass returns: the call goes on to intensify, the public search
\* to improveWithMultiTrip.
AfterNodePass ==
    IF op = "call"
    THEN Goto("intensify", [fr EXCEPT !.nu = numUpdates])
    ELSE Goto("multitrip", [fr EXCEPT !.mi = D.numDepots])

SearchBegin ==
    /\ pc = "search"
    /\ IF nodeOps = <<>>
       THEN AfterNodePass /\ UNCHANGED <<promising, searchCompleted, seen>>
       ELSE /\ promising' = promising \cup RequiredMissing(D, routes)
            /\ searchCompleted' = FALSE
            /\ Goto("step", [fr EXCEPT !.step = 0])
            /\ seen' = {}
    /\ UNCHANGED <<static, routes, nodes, cached, lastUpdated, numUpdates,
                   lastTestedNodes, lastTestedRoutes, lastMove, lastChange>>

\* The head of `for (int step = 0; !searchCompleted_; ++step)`.
StepBegin ==
    /\ pc = "step"
    /\ IF searchCompleted
       THEN AfterNodePass /\ UNCHANGED <<searchCompleted, seen>>
       ELSE /\ searchCompleted' = TRUE
            /\ Goto("visit", [fr EXCEPT !.ci = 1])
            /\ seen' = seen \cup {Snapshot}
    /\ UNCHANGED <<static, routes, nodes, cached, promising, lastUpdated, numUpdates,
                   lastTestedNodes, lastTestedRoutes, lastMove, lastChange>>

\* A variant that tests an unrouted client whenever any route has been
\* updated since its last visit.
ShouldTestUnrouted(u, lastTested) ==
    \/ lastTested = 0 - 1
    \/ \E r \in RouteIdxs(D) : lastUpdated[r] > lastTested

\* shouldTest of the visit of client u last tested at lastTested.
ShouldTest(u, lastTested) ==
    \/ lastTested = 0 - 1
    \/ /\ RouteOf(D, routes, u) # NoRoute
       /\ lastUpdated[RouteOf(D, routes, u)] > lastTested

\* The head of the loop over clientOrder.
Visit ==
    /\ pc = "visit"
    /\ IF fr.ci > Len(clientOrder)
       THEN /\ Goto("step", [fr EXCEPT !.step = @ + 1])
            /\ UNCHANGED lastTestedNodes
       ELSE IF CurU \notin promising
       THEN /\ Goto("visit", [fr EXCEPT !.ci = @ + 1])
            /\ UNCHANGED lastTestedNodes
       ELSE /\ lastTestedNodes' = [lastTestedNodes EXCEPT ![CurU] = numUpdates]
            /\ Goto(IF ShouldTest(CurU, lastTestedNodes[CurU])
                    THEN "optional" ELSE "group",
                    [fr EXCEPT !.lastTested = lastTestedNodes[CurU]])
    /\ NoUpdate
    /\ UNCHANGED <<static, lastTestedRoutes, lastMove, seen>>

\* The visit of this client is over.
NextClient == [fr EXCEPT !.ci = @ + 1]

\* `update(U->route(), U->route()); markPromising(U);` after Solution::insert
\* returned ins, when it inserted U.
AcceptInsert(kind, ins, U) ==
    IF ins.inserted
    THEN Accept(kind, ins.kind, ins.routes, ins.route, ins.route,
                MarkPromising(D, ins.routes, promising,
                              ClientNode(D, ins.routes, U)))
    ELSE NoUpdate

\* A variant that leaves a missing required client out.
OptRequiredLeftOut ==
    /\ pc = "optional"
    /\ NoUpdate
    /\ Goto(IF D.required[CurU + 1] \/ D.group[CurU + 1] # 0
            THEN "group" ELSE "optRemove", fr)
    /\ UNCHANGED <<static, lastTestedNodes, lastTestedRoutes, lastMove, seen>>

\* applyOptionalClientMoves: a required client that is missing is inserted.
OptRequired ==
    /\ pc = "optional"
    /\ IF D.required[CurU + 1] /\ RouteOf(D, routes, CurU) = NoRoute
       THEN AcceptInsert("required",
                         SolutionInsert(D, routes, CurU, D.vehTypeOrder, TRUE),
                         CurU)
       ELSE NoUpdate
    /\ Goto(IF D.required[CurU + 1] \/ D.group[CurU + 1] # 0
            THEN "group" ELSE "optRemove", fr)
    /\ UNCHANGED <<static, lastTestedNodes, lastTestedRoutes, lastMove, seen>>

\* route->remove(U->idx()); update(route, route); for the client node N,
\* marked promising first.
AcceptRemove(kind, N) ==
    Accept(kind, "", RouteRemove(routes, N.r, N.idx), N.r, N.r,
           MarkPromising(D, routes, promising, N))

\* applyOptionalClientMoves: an optional client is removed if that improves.
OptRemove ==
    /\ pc = "optRemove"
    /\ IF /\ ~WouldViolateSameVehicle(D, routes, CurU,
                                      RouteOf(D, routes, CurU), NoRoute)
          /\ RemoveCostClient(D, routes, CurU) < 0
       THEN /\ AcceptRemove("remove", ClientNode(D, routes, CurU))
            /\ Goto("optInsert", fr)
       ELSE /\ NoUpdate
            /\ Goto(IF RouteOf(D, routes, CurU) # NoRoute
                    THEN "group" ELSE "optInsert", fr)
    /\ UNCHANGED <<static, lastTestedNodes, lastTestedRoutes, lastMove, seen>>

\* applyOptionalClientMoves returns once ins inserted U, and goes on to the
\* in-place replacements otherwise.
OptInserted(ins) ==
    /\ AcceptInsert("insert", ins, CurU)
    /\ Goto(IF ins.inserted THEN "group" ELSE "optReplace", fr)

\* applyOptionalClientMoves: the unrouted client is inserted if that improves.
OptInsert ==
    /\ pc = "optInsert"
    /\ OptInserted(SolutionInsert(D, routes, CurU, D.vehTypeOrder, FALSE))
    /\ UNCHANGED <<static, lastTestedNodes, lastTestedRoutes, lastMove, seen>>

\* The neighbours V of U that applyOptionalClientMoves would replace by U.
Replaceable(I, rts, U) ==
    SelectSeq(I.neighbours[U + 1],
              LAMBDA V : /\ RouteOf(I, rts, V) # NoRoute
                         /\ ~I.required[V + 1]
                         /\ ~WouldViolateSameVehicle(I, rts, V,
                                                     RouteOf(I, rts, V), NoRoute)
                         /\ InplaceCost(I, rts, U, V) < 0)

\* route->remove(idx); route->insert(idx, U); update(route, route);
\* markPromising(U): client U takes the place of the node N.
AcceptReplace(kind, N, U, prom) ==
    Accept(kind, "", RouteReplace(routes, N.r, N.idx, U), N.r, N.r,
           MarkPromising(D, RouteReplace(routes, N.r, N.idx, U), prom, N))

\* U takes the place of the first of the replaceable neighbours vs.
ReplaceFirst(vs, U) ==
    IF vs # <<>>
    THEN AcceptReplace("replace", ClientNode(D, routes, Head(vs)), U,
                       MarkPromising(D, routes, promising,
                                     ClientNode(D, routes, Head(vs))))
    ELSE NoUpdate

\* applyOptionalClientMoves: U takes the place of the first neighbour that
\* is worth less.
OptReplace ==
    /\ pc = "optReplace"
    /\ ReplaceFirst(Replaceable(D, routes, CurU), CurU)
    /\ Goto("group", fr)
    /\ UNCHANGED <<static, lastTestedNodes, lastTestedRoutes, lastMove, seen>>

(***************************************************************************)
(* LocalSearch::applyGroupMoves(U)                                         *)
(***************************************************************************)
\* A variant of the plan that removes no member of the group.
GroupPlanRemoveNone(order) ==
    /\ NoUpdate
    /\ Goto("groupRemove", [fr EXCEPT !.gq = <<>>, !.gv = order[Len(order)]])

\* The removals and the swap candidate, from the members sorted by cost.
GroupPlan(order) ==
    /\ NoUpdate
    /\ Goto("groupRemove",
            [fr EXCEPT !.gq = SubSeq(order, 1, Len(order) - 1),
                       !.gv = order[Len(order)]])

GroupMoves ==
    /\ pc = "group"
    /\ IF D.group[CurU + 1] = 0
       THEN NoUpdate /\ Goto("afterGroup", fr)
       ELSE IF GroupInSol(D, routes, D.group[CurU + 1]) = <<>>
       THEN /\ AcceptInsert(IF D.groups[D.group[CurU + 1]].required
                             THEN "required" ELSE "insert",
                             SolutionInsert(D, routes, CurU, D.vehTypeOrder,
                                 D.groups[D.group[CurU + 1]].required), CurU)
            /\ Goto("afterGroup", fr)
       ELSE \E order \in SortByCost(D, routes,
                                     GroupInSol(D, routes, D.group[CurU + 1])) :
                GroupPlan(order)
    /\ UNCHANGED <<static, lastTestedNodes, lastTestedRoutes, lastMove, seen>>

\* The loop that removes all routed members of the group but the last.
GroupRemove ==
    /\ pc = "groupRemove"
    /\ IF fr.gq = <<>>
       THEN NoUpdate /\ Goto("groupSwap", fr)
       ELSE /\ AcceptRemove("groupRemove", ClientNode(D, routes, Head(fr.gq)))
            /\ Goto("groupRemove", [fr EXCEPT !.gq = Tail(@)])
    /\ UNCHANGED <<static, lastTestedNodes, lastTestedRoutes, lastMove, seen>>

\* U takes the place of the remaining member V if U is better to have.
GroupSwap ==
    /\ pc = "groupSwap"
    /\ IF CurU # fr.gv /\ InplaceCost(D, routes, CurU, fr.gv) < 0
       THEN AcceptReplace("groupSwap", ClientNode(D, routes, fr.gv), CurU,
                          promising)
       ELSE NoUpdate
    /\ Goto("afterGroup", fr)
    /\ UNCHANGED <<static, lastTestedNodes, lastTestedRoutes, lastMove, seen>>

\* `if (!U->route()) continue;`
AfterGroup ==
    /\ pc = "afterGroup"
    /\ IF RouteOf(D, routes, CurU) = NoRoute
       THEN Goto("visit", NextClient)
       ELSE Goto("depotPrev", fr)
    /\ NoUpdate
    /\ UNCHANGED <<static, lastTestedNodes, lastTestedRoutes, lastMove, seen>>

(***************************************************************************)
(* LocalSearch::applyDepotRemovalMove(node) for a node next to U.          *)
(***************************************************************************)
DepotRemoval(N) ==
    IF IsReloadDepotAt(D, routes[N.r], N.idx) /\ RemoveCost(D, routes, N) <= 0
    THEN AcceptRemove("depotRemove", N)
    ELSE NoUpdate

\* The node before (by = -1) or after (by = 1) the client node U.
Beside(U, by) == Node(U.r, U.idx + by)

\* applyDepotRemovalMove(p(U))
DepotPrev ==
    /\ pc = "depotPrev"
    /\ DepotRemoval(Beside(ClientNode(D, routes, CurU), 0 - 1))
    /\ Goto("depotNext", fr)
    /\ UNCHANGED <<static, lastTestedNodes, lastTestedRoutes, lastMove, seen>>

\* applyDepotRemovalMove(n(U))
DepotNext ==
    /\ pc = "depotNext"
    /\ DepotRemoval(Beside(ClientNode(D, routes, CurU), 1))
    /\ Goto("nodeops", [fr EXCEPT !.vi = 1])
    /\ UNCHANGED <<static, lastTestedNodes, lastTestedRoutes, lastMove, seen>>

(***************************************************************************)
(* The loop over the neighbours V of U, one neighbour at a time.           *)
(***************************************************************************)
\* What applying a move (an ApplyNodeOps or ApplyRouteOps result) on routes
\* rU and rV does to the driver, with the costs the assertion compares.
ApplyMove(res, kind, rU, rV, prom) ==
    /\ Accept(kind, "", res.routes, rU, rV, prom)
    /\ lastMove' = [kind |-> kind, pair |-> <<rU, rV>>,
                    before |-> CachedPairCost(cached, rU, rV),
                    delta |-> res.delta,
                    after |-> CachedPairCost(cached', rU, rV)]

\* `if (applyNodeOps(U, V)) continue;`, or else the test of (U, p(V)).
OrElse(first, V, second, depot) ==
    IF first.applied THEN [res |-> first, V |-> V]
    ELSE [res |-> second, V |-> depot]

\* A variant that tests (U, p(V)) before (U, V).
NodePairDepotFirst(U, V) ==
    OrElse(IF V.idx = 1
           THEN ApplyNodeOps(D, routes, nodeOps, U, Node(V.r, 0))
           ELSE NoMove(routes),
           Node(V.r, 0),
           ApplyNodeOps(D, routes, nodeOps, U, V), V)

\* The pair (U, V) is tested, and (U, p(V)) if V is the first of its route.
NodePair(U, V) ==
    OrElse(ApplyNodeOps(D, routes, nodeOps, U, V), V,
           IF V.idx = 1
           THEN ApplyNodeOps(D, routes, nodeOps, U, Node(V.r, 0))
           ELSE NoMove(routes),
           Node(V.r, 0))

\* What the accepted move of pair does to the driver.
ApplyPair(pair, U) ==
    IF pair.res.applied
    THEN ApplyMove(pair.res, "node", U.r, pair.V.r,
                   MarkPromising(D, routes,
                       MarkPromising(D, routes, promising, U), pair.V))
    ELSE NoUpdate /\ UNCHANGED lastMove

\* The body of the loop for neighbour V of U, both routed.
TestPair(U, V) ==
    IF lastUpdated[U.r] > fr.lastTested \/ lastUpdated[V.r] > fr.lastTested
    THEN ApplyPair(NodePair(U, V), U)
    ELSE NoUpdate /\ UNCHANGED lastMove

NodeOps ==
    /\ pc = "nodeops"
    /\ IF fr.vi > Len(D.neighbours[CurU + 1])
       THEN /\ NoUpdate /\ UNCHANGED lastMove
            /\ IF fr.step > 0 THEN Goto("emptyRoutes", fr)
               ELSE Goto("visit", NextClient)
       ELSE /\ IF RouteOf(D, routes, D.neighbours[CurU + 1][fr.vi]) # NoRoute
               THEN TestPair(ClientNode(D, routes, CurU),
                             ClientNode(D, routes,
                                        D.neighbours[CurU + 1][fr.vi]))
               ELSE NoUpdate /\ UNCHANGED lastMove
            /\ Goto("nodeops", [fr EXCEPT !.vi = @ + 1])
    /\ UNCHANGED <<static, lastTestedNodes, lastTestedRoutes, seen>>

\* What the accepted move res of U into an empty route does to the driver.
ApplyEmpty(res, U) ==
    IF res.applied
    THEN ApplyMove(res, "node", U.r, res.target,
                   MarkPromising(D, routes, promising, U))
    ELSE NoUpdate /\ UNCHANGED lastMove

\* LocalSearch::applyEmptyRouteMoves(U), from the second step on.
EmptyRouteMoves ==
    /\ pc = "emptyRoutes"
    /\ ApplyEmpty(EmptyRouteMove(D, routes, nodeOps,
                                 ClientNode(D, routes, CurU), D.vehTypeOrder),
                  ClientNode(D, routes, CurU))
    /\ Goto("visit", NextClient)
    /\ UNCHANGED <<static, lastTestedNodes, lastTestedRoutes, seen>>

(***************************************************************************)
(* LocalSearch::intensify(costEvaluator): the route pass.                  *)
(***************************************************************************)
IntensifyBegin ==
    /\ pc = "intensify"
    /\ IF D.routeOps = <<>>
       THEN Goto("afterIntensify", fr) /\ UNCHANGED searchCompleted
       ELSE Goto("sweep", fr) /\ searchCompleted' = FALSE
    /\ UNCHANGED <<static, routes, nodes, cached, promising, lastUpdated, numUpdates,
                   lastTestedNodes, lastTestedRoutes, lastMove, lastChange, seen>>

\* The head of `while (!searchCompleted_)`.
SweepBegin ==
    /\ pc = "sweep"
    /\ IF searchCompleted
       THEN Goto("afterIntensify", fr) /\ UNCHANGED searchCompleted
       ELSE Goto("iroute", [fr EXCEPT !.ri = 1]) /\ searchCompleted' = TRUE
    /\ UNCHANGED <<static, routes, nodes, cached, promising, lastUpdated, numUpdates,
                   lastTestedNodes, lastTestedRoutes, lastMove, lastChange, seen>>

\* The head of the loop over routeOrder.
IRoute ==
    /\ pc = "iroute"
    /\ LET rU == D.routeOrder[fr.ri]
       IN  IF fr.ri > Len(D.routeOrder)
           THEN Goto("sweep", fr) /\ UNCHANGED lastTestedRoutes
           ELSE IF routes[rU] = <<>>
           THEN Goto("iroute", [fr EXCEPT !.ri = @ + 1])
                  /\ UNCHANGED lastTestedRoutes
           ELSE /\ lastTestedRoutes' = [lastTestedRoutes EXCEPT ![rU] = numUpdates]
                /\ Goto("ipair", [fr EXCEPT !.lastTested = lastTestedRoutes[rU],
                                            !.rj = rU + 1])
    /\ NoUpdate
    /\ UNCHANGED <<static, lastTestedNodes, lastMove, seen>>

\* What the accepted route move res does to the driver.
ApplyRoutePair(res, rU, rV) ==
    IF res.applied
    THEN ApplyMove(res, "route", rU, rV, promising)
    ELSE NoUpdate /\ UNCHANGED lastMove

\* A variant of the loop body that does not pass over an empty route V.
TestRoutesAnyV(rU, rV) ==
    IF lastUpdated[rU] > fr.lastTested \/ lastUpdated[rV] > fr.lastTested
    THEN ApplyRoutePair(ApplyRouteOps(D, routes, D.routeOps, rU, rV), rU, rV)
    ELSE NoUpdate /\ UNCHANGED lastMove

\* The body of the loop for route rV after rU.
TestRoutes(rU, rV) ==
    IF /\ routes[rV] # <<>>
       /\ lastUpdated[rU] > fr.lastTested \/ lastUpdated[rV] > fr.lastTested
    THEN ApplyRoutePair(ApplyRouteOps(D, routes, D.routeOps, rU, rV), rU, rV)
    ELSE NoUpdate /\ UNCHANGED lastMove

\* The loop over the routes V after U, one route at a time.
IPair ==
    /\ pc = "ipair"
    /\ IF fr.rj = NumVehicles(D)
       THEN /\ NoUpdate /\ UNCHANGED lastMove
            /\ Goto("iroute", [fr EXCEPT !.ri = @ + 1])
       ELSE /\ TestRoutes(D.routeOrder[fr.ri], fr.rj)
            /\ Goto("ipair", [fr EXCEPT !.rj = @ + 1])
    /\ UNCHANGED <<static, lastTestedNodes, lastTestedRoutes, seen>>

\* A variant in which the call returns after its first route pass.
AfterIntensifyOnce ==
    /\ pc = "afterIntensify"
    /\ Goto("unload", fr)
    /\ NoUpdate
    /\ UNCHANGED <<static, lastTestedNodes, lastTestedRoutes, lastMove, seen>>

\* The route pass returns: the call stops when the pass made no update, and
\* runs the node pass again otherwise; the public intensify unloads.
AfterIntensify ==
    /\ pc = "afterIntensify"
    /\ IF op = "call" /\ numUpdates # fr.nu
       THEN Goto("search", fr)
       ELSE Goto("unload", fr)
    /\ NoUpdate
    /\ UNCHANGED <<static, lastTestedNodes, lastTestedRoutes, lastMove, seen>>

(***************************************************************************)
(* LocalSearch::improveWithMultiTrip, one client of its loop at a time.    *)
(***************************************************************************)
MultiTripInto(new, r, u) ==
    /\ Changed("multitrip", "", new)
    /\ routes' = new
    /\ nodes' = Owners(D, new)
    /\ cached' = [cached EXCEPT ![r] = CostOf(D, r, new[r])]
    /\ promising' = MarkPromising(D, new, promising, ClientNode(D, new, u))

\* The body of the loop for client u, r being the route its trip goes to.
MultiTripClient(u, r) ==
    IF r # NoRoute
    THEN MultiTripInto(MultiTripInsert(D, routes, u, r), r, u)
    ELSE UNCHANGED <<routes, nodes, cached, promising, lastChange>>

MultiTrip ==
    /\ pc = "multitrip"
    /\ IF fr.mi = NumLocations(D)
       THEN /\ Goto("unload", fr)
            /\ UNCHANGED <<routes, nodes, cached, promising, lastChange>>
       ELSE /\ MultiTripClient(fr.mi, MultiTripRoute(D, routes, fr.mi))
            /\ Goto("multitrip", [fr EXCEPT !.mi = @ + 1])
    /\ UNCHANGED <<static, lastUpdated, numUpdates, searchCompleted,
                   lastTestedNodes, lastTestedRoutes, lastMove, seen>>

\* `return solution_.unload();`
Return ==
    /\ pc = "unload"
    /\ output' = Unload(D, routes)
    /\ runs' = runs + 1
    /\ pc' = "done"
    /\ NoUpdate
    /\ UNCHANGED <<config, call, fr, lastTestedNodes, lastTestedRoutes,
                   lastMove, seen>>

\* The driver's steps.
Next ==
    \/ Shuffle \/ AddNodeOperator \/ AddRouteOperator \/ SetNeighbours
    \/ Call \/ Search \/ Intensify \/ CallAgain
    \/ PerturbMove \/ PerturbDone
    \/ SearchBegin \/ StepBegin \/ Visit
    \/ OptRequired \/ OptRemove \/ OptInsert \/ OptReplace
    \/ GroupMoves \/ GroupRemove \/ GroupSwap \/ AfterGroup
    \/ DepotPrev \/ DepotNext \/ NodeOps \/ EmptyRouteMoves
    \/ IntensifyBegin \/ SweepBegin \/ IRoute \/ IPair \/ AfterIntensify
    \/ MultiTrip \/ Return

Spec == Init /\ [][Next]_vars

(***************************************************************************)
(* build_neighbours on its own: the arguments are drawn at the start and   *)
(* the one step is the call.                                               *)
(***************************************************************************)
NbInputs ==
    [data : 1..Len(NbInstances),
     numNeighbours : (0..MaxNumK) \cup {DefaultNumNeighbours},
     symmetricProximity : BOOLEAN,
     done : {FALSE}]

NbInit ==
    /\ DriverInit
    /\ inst = 1
    /\ clientOrder = <<1, 2, 3>>
    /\ nbArgs \in NbInputs
    /\ nbResult = <<>>
    /\ nifCall = NifIdle
    /\ nifResult = <<>>
    /\ NoResources

BuildNeighbours ==
    /\ ~nbArgs.done
    /\ nbResult' = BuildNeighboursOf(NbInstances[nbArgs.data],
                                     nbArgs.numNeighbours, DefaultWeights,
                                     nbArgs.symmetricProximity)
    /\ nbArgs' = [nbArgs EXCEPT !.done = TRUE]
    /\ UNCHANGED <<inst, setup, routes, nodes, cached, promising,
                   lastTestedNodes, lastTestedRoutes, lastUpdated, numUpdates,
                   searchCompleted, pc, op, exhaustive, fr, input, output,
                   runs, lastMove, lastChange, seen, nifCall, nifResult,
                   resources>>

NbNext == BuildNeighbours

NbSpec == NbInit /\ [][NbNext]_vars

(***************************************************************************)
(* The calls of the construction boundary on their own: the call is drawn  *)
(* at the start and the one step is its handler.                           *)
(***************************************************************************)
PenaltyLists ==
    {ListTerm(items) :
        items \in UNION {[1..n -> Terms] : n \in 0..MaxPenalties}}
      \cup {Absent, Term("atom", 0)}
NodeOpNames == {"relocate", "swap_tails", "relocate_with_depot", "two_opt"}
RouteOpNames == {"swap_routes", "or_opt"}

\* The instances local_search_with_operators_nif is called with.
WithOperatorsData == {5, 14}

NifCalls ==
    [fn : {"create_cost_evaluator"},
     load_penalties : PenaltyLists,
     tw_penalty : Terms \cup {Absent},
     dist_penalty : Terms \cup {Absent},
     done : {FALSE}]
      \cup [fn : {"local_search_with_operators"},
            data : WithOperatorsData,
            exhaustive : BOOLEAN,
            node_operators : UNION {[1..n -> NodeOpNames] : n \in 0..MaxOpNames},
            route_operators : UNION {[1..n -> RouteOpNames] : n \in 0..1},
            done : {FALSE}]
      \cup [fn : {"create_local_search"},
            data : 1..Len(Instances),
            done : {FALSE}]

NifInit ==
    /\ DriverInit
    /\ nbArgs = NbIdle
    /\ nbResult = <<>>
    /\ nifCall \in NifCalls
    /\ inst = IF nifCall.fn = "create_cost_evaluator" THEN 1 ELSE nifCall.data
    /\ nifResult = <<>>
    /\ NoResources

\* The call returns result.
NifReturn(result) ==
    /\ nifResult' = result
    /\ nifCall' = [nifCall EXCEPT !.done = TRUE]
    /\ UNCHANGED <<inst, setup, routes, nodes, cached, promising,
                   lastTestedNodes, lastTestedRoutes, lastUpdated, numUpdates,
                   searchCompleted, pc, op, exhaustive, fr, input, output,
                   runs, lastMove, lastChange, seen, nbArgs, nbResult, resources>>

CreateCostEvaluator ==
    /\ nifCall.fn = "create_cost_evaluator"
    /\ ~nifCall.done
    /\ NifReturn(CreateCostEvaluatorOf(nifCall))

\* local_search_with_operators_nif(problem, solution, evaluator, opts) up
\* to the start of the run: the neighbours are built, the operators named
\* are added, the driver is shuffled and operator() loads the solution.
\* The run goes on by the driver's steps.
LocalSearchWithOperators ==
    /\ nifCall.fn = "local_search_with_operators"
    /\ ~nifCall.done
    /\ pc = "idle"
    /\ neighbours' = AsNeighbours(BuildNeighboursOf(
                          AsProximityData(Instances[inst]),
                          DefaultNumNeighbours, DefaultWeights, TRUE))
    /\ LET named == WithOperators(Instances[inst], nifCall.node_operators,
                                  nifCall.route_operators)
       IN  /\ nodeOps' \in Shuffled(named.nodeOps)
           /\ routeOps' \in Shuffled(named.routeOps)
    /\ clientOrder' \in Shuffled(clientOrder)
    /\ routeOrder' \in Shuffled(routeOrder)
    /\ vehTypeOrder' \in Shuffled(vehTypeOrder)
    /\ \E sol \in InputSolutions(Instances[inst]) :
          Started(sol, "call", nifCall.exhaustive,
                  IF nifCall.exhaustive THEN "search" ELSE "perturb")
    /\ UNCHANGED <<inst, binding>>

\* The run of local_search_with_operators_nif is over: the improved
\* solution is returned as a resource.
WithOperatorsReturn ==
    /\ nifCall.fn = "local_search_with_operators"
    /\ ~nifCall.done
    /\ pc = "done"
    /\ NifReturn([ok |-> TRUE, solution |-> output])

CreateLocalSearch ==
    /\ nifCall.fn = "create_local_search"
    /\ ~nifCall.done
    /\ NifReturn(DefaultOperators(Instances[nifCall.data]))

NifNext ==
    \/ CreateCostEvaluator \/ CreateLocalSearch
    \/ LocalSearchWithOperators \/ WithOperatorsReturn
    \/ PerturbMove \/ PerturbDone
    \/ SearchBegin \/ StepBegin \/ Visit
    \/ OptRequired \/ OptRemove \/ OptInsert \/ OptReplace
    \/ GroupMoves \/ GroupRemove \/ GroupSwap \/ AfterGroup
    \/ DepotPrev \/ DepotNext \/ NodeOps \/ EmptyRouteMoves
    \/ IntensifyBegin \/ SweepBegin \/ IRoute \/ IPair \/ AfterIntensify
    \/ Return

NifSpec == NifInit /\ [][NifNext]_vars

(***************************************************************************)
(* Solution::load on a driver that ran before: the working routes hold     *)
(* whatever the last operation left, and the next public operation loads   *)
(* its own solution over them.                                             *)
(***************************************************************************)
RECURSIVE TripSplits(_, _, _)
\* The ways to cut the client sequence s into at most n trips by putting
\* reload depot d between two clients.
TripSplits(s, n, d) ==
    IF n <= 1 \/ Len(s) <= 1 THEN {s}
    ELSE {s} \cup UNION {{SubSeq(s, 1, k) \o <<d>> \o t :
                            t \in TripSplits(SubSeq(s, k + 1, Len(s)), n - 1, d)} :
                         k \in 1..(Len(s) - 1)}

\* The node sequences a route of vehicle type vt can hold: clients in any
\* order, in one trip or, with a reload depot, in up to maxTrips() trips.
RouteStates(I, vt) ==
    UNION {IF vt.reloadDepots = <<>> THEN {s}
           ELSE TripSplits(s, MaxTrips(vt), vt.reloadDepots[1]) :
             s \in SeqsOver(Clients(I))}

\* The working states an earlier operation can have left: every client in
\* at most one slot, slots of a type not necessarily filled from the first.
PriorStates(I) ==
    {w \in [RouteIdxs(I) -> UNION {RouteStates(I, VehicleType(I, t - 1)) :
                                      t \in 1..NumVehicleTypes(I)}] :
        /\ \A r \in RouteIdxs(I) : w[r] \in RouteStates(I, RouteVT(I, r))
        /\ \A r1, r2 \in RouteIdxs(I) :
              r1 # r2 => Range(w[r1]) \cap Range(w[r2]) \cap Clients(I) = {}}

\* The solutions the next operation can be given: what unload makes of such
\* a state.
LoadInputs(I) == {Unload(I, w) : w \in PriorStates(I)}

LoadInit ==
    /\ inst \in 1..Len(Instances)
    /\ clientOrder \in Instances[inst].clientOrders
    /\ routeOrder = Instances[inst].routeOrder
    /\ vehTypeOrder = Instances[inst].vehTypeOrder
    /\ neighbours = Instances[inst].neighbours
    /\ nodeOps \in Instances[inst].nodeOpLists
    /\ routeOps = Instances[inst].routeOps
    /\ routes \in PriorStates(Instances[inst])
    /\ nodes = Owners(Instances[inst], routes)
    /\ cached = [r \in RouteIdxs(Instances[inst]) |->
                    CostOf(Instances[inst], r, routes[r])]
    /\ promising = {}
    /\ lastTestedNodes = [c \in 0 .. (NumLocations(Instances[inst]) - 1) |-> 0]
    /\ lastTestedRoutes = [r \in RouteIdxs(Instances[inst]) |-> 0]
    /\ lastUpdated = [r \in RouteIdxs(Instances[inst]) |-> 0]
    /\ numUpdates = 0
    /\ searchCompleted = TRUE
    /\ pc = "done"
    /\ op = "search"
    /\ exhaustive = FALSE
    /\ fr = NoFrame
    /\ input = <<>>
    /\ output = Unload(Instances[inst], routes)
    /\ runs = 1
    /\ lastMove = [kind |-> "none", pair |-> <<>>, before |-> 0, delta |-> 0,
                   after |-> 0]
    /\ lastChange = [kind |-> "none", how |-> "", before |-> 0, after |-> 0]
    /\ seen = {}
    /\ nbArgs = NbIdle
    /\ nbResult = <<>>
    /\ nifCall = NifIdle
    /\ nifResult = <<>>
    /\ NoResources

\* The next public operation, up to the end of LocalSearch::loadSolution.
LoadAgain ==
    /\ pc = "done"
    /\ \E sol \in LoadInputs(D) : Start(sol, "search", FALSE, "loaded")

LoadNext == LoadAgain

LoadSpec == LoadInit /\ [][LoadNext]_vars

(***************************************************************************)
(* Properties.                                                             *)
(***************************************************************************)
NodePassPcs ==
    {"search", "step", "visit", "optional", "optRemove", "optInsert",
     "optReplace", "group", "groupRemove", "groupSwap", "afterGroup",
     "depotPrev", "depotNext", "nodeops", "emptyRoutes"}
RoutePassPcs == {"intensify", "sweep", "iroute", "ipair", "afterIntensify"}
Idle == {"idle", "done"}

\* C1: for every accepted node-operator or route-operator move, the cost of
\* the routes of U and V after the move equals their cost before it plus the
\* delta the operator reported: the assertion
\* costAfter == costBefore + deltaCost never fails.
C1DeltaExact ==
    lastMove.kind \in {"node", "route"}
        => lastMove.after = lastMove.before + lastMove.delta

\* An improving node move between two different routes was applied.
C1Witness ==
    /\ lastMove.kind = "node"
    /\ lastMove.delta < 0
    /\ lastMove.pair[1] # lastMove.pair[2]

\* The changes a pass accepts on a cost test (a delta below zero, or at most
\* zero for a reload depot); the insertion of a required client and the
\* removals that clear a group are made whatever they cost.
CostAccepted ==
    {"node", "route", "remove", "insert", "replace", "groupSwap", "depotRemove"}

\* C2: within a node or route pass, every change accepted on its cost
\* (operator move, client insertion, removal, in-place replacement, group
\* swap, reload-depot removal) leaves the total penalised cost of the
\* solution at most what it was before.
C2Monotone ==
    lastChange.kind \in CostAccepted => lastChange.after <= lastChange.before

\* C3: every node pass terminates: it never begins a step in a state in
\* which it began an earlier step (the pass is a function of that state, so
\* a state met twice is met forever).
C3NoStepRepeats ==
    (pc = "step" /\ ~searchCompleted) => Snapshot \notin seen

\* The clients a returned solution visits, and the position in the solution
\* of the route that visits client c (0 when no route does).
SolClients(solRoute) == UNION {Range(t.visits) : t \in Range(solRoute.trips)}
SolRouteOf(sol, c) ==
    IF \E k \in 1..Len(sol) : c \in SolClients(sol[k])
    THEN CHOOSE k \in 1..Len(sol) : c \in SolClients(sol[k])
    ELSE 0

\* A public operation of a driver with at least one node operator is at
\* its return statement, and the solution it returns.
Returning == pc = "unload" /\ nodeOps # <<>>
ToReturn == Unload(D, routes)

\* C4: after the public search, at most one member of every mutually
\* exclusive group is routed in the returned solution, whatever the input.
C4GroupExclusive ==
    (Returning /\ op = "search") =>
        \A g \in 1..Len(D.groups) :
            Cardinality({c \in Range(D.groups[g].clients) :
                            SolRouteOf(ToReturn, c) # 0}) <= 1

\* The same-vehicle constraint on a solution: the routed members of every
\* group are on one route, or on routes of equal non-empty vehicle name.
SameVehicleOk(sol) ==
    \A g \in 1..Len(D.sameVehicleGroups) :
        \A a, b \in Range(D.sameVehicleGroups[g]) :
            (SolRouteOf(sol, a) # 0 /\ SolRouteOf(sol, b) # 0) =>
                \/ SolRouteOf(sol, a) = SolRouteOf(sol, b)
                \/ LET na == VehicleType(D, sol[SolRouteOf(sol, a)].vehicleType).name
                       nb == VehicleType(D, sol[SolRouteOf(sol, b)].vehicleType).name
                   IN  na # "" /\ na = nb

\* C5: started from a solution that satisfies the same-vehicle constraint,
\* the solution returned by the public search or by the call satisfies it.
\* Stated for the runs that do not perturb: the public search and the
\* exhaustive call.
C5SameVehicleKept ==
    (/\ Returning
     /\ op = "search" \/ (op = "call" /\ exhaustive)
     /\ SameVehicleOk(input))
        => SameVehicleOk(ToReturn)

\* C6: the call loads the solution, perturbs exactly once and before the
\* first node pass if and only if it is not exhaustive, then alternates the
\* node pass and the route pass, the node pass first, and returns exactly
\* after the first route pass that made no update.
C6CallOrder ==
    [][ op' = "call" =>
          /\ (pc \in Idle /\ pc' \notin Idle) =>
                /\ pc' = IF exhaustive' THEN "search" ELSE "perturb"
                /\ routes' = Load(D, routes, nodes, input').routes
                /\ numUpdates' = 0
          /\ pc' = "perturb" => (~exhaustive' /\ pc \in Idle \cup {"perturb"})
          /\ (pc = "perturb" /\ pc' # "perturb") =>
                (pc' = "search" /\ fr.pert >= MinPerturbations)
          /\ (pc' = "search" /\ pc # "search") =>
                pc \in Idle \cup {"perturb", "afterIntensify"}
          /\ (pc \in NodePassPcs /\ pc' \notin NodePassPcs) =>
                (pc' = "intensify" /\ fr'.nu = numUpdates')
          /\ pc \in RoutePassPcs \ {"afterIntensify"} =>
                (pc' \in RoutePassPcs /\ fr'.nu = fr.nu)
          /\ pc = "afterIntensify" =>
                pc' = IF numUpdates = fr.nu THEN "unload" ELSE "search"
          /\ pc' = "unload" => (pc = "afterIntensify" /\ numUpdates = fr.nu)
          /\ pc = "unload" => (pc' = "done" /\ output' = Unload(D, routes))
      ]_vars

\* A call that perturbed, had a route pass that made an update (so that the
\* node pass ran again), and returned.
C6Witness ==
    /\ op = "call" /\ ~exhaustive /\ pc = "done"
    /\ lastMove.kind = "route"
    /\ fr.nu > 0

\* C7 as stated: the public search changes the solution only through the
\* node pass, so that it returns the working solution as the node pass left
\* it.
C7OnlyNodePass ==
    [][ (op = "search" /\ pc \notin Idle /\ routes' # routes)
            => pc \in NodePassPcs ]_vars

\* C7, amended: the public search changes the solution through the node
\* pass and then through one pass of improveWithMultiTrip, which only adds
\* new trips (a reload depot and an unrouted client with a prize, at the end
\* of a route); it evaluates no route operator, and returns the working
\* solution as that pass left it.
C7NodePassThenMultiTrip ==
    [][ (op = "search" /\ pc \notin Idle) =>
          /\ routes' # routes => pc \in NodePassPcs \cup {"multitrip"}
          /\ (pc = "multitrip" /\ routes' # routes) =>
                /\ RouteOf(D, routes, fr.mi) = NoRoute
                /\ D.prize[fr.mi + 1] > 0
                /\ \E r \in RouteIdxs(D) :
                      routes' = [routes EXCEPT ![r] =
                          @ \o <<RouteVT(D, r).reloadDepots[1], fr.mi>>]
          /\ (pc \in NodePassPcs /\ pc' \notin NodePassPcs) => pc' = "multitrip"
          /\ pc = "multitrip" => pc' \in {"multitrip", "unload"}
          /\ pc' \notin RoutePassPcs
          /\ lastMove'.kind # "route"
          /\ pc = "unload" =>
                (pc' = "done" /\ routes' = routes /\ output' = Unload(D, routes))
      ]_vars

\* A public search that returned after improveWithMultiTrip added a trip.
C7Witness ==
    op = "search" /\ pc = "done" /\ lastChange.kind = "multitrip"

\* C9: the exhaustive call is idempotent: run on the solution it returned,
\* with the operators, neighbours and orders of the first run, it returns
\* that solution again.
C9Idempotent ==
    (pc = "done" /\ op = "call" /\ exhaustive /\ runs >= 2) => output = input

\* C10 as stated: loading what unload returned leaves every route slot of
\* the working solution with the same sequence of clients and reload depots.
C10SameSlots ==
    pc = "done" => Load(D, routes, nodes, output).routes = routes

\* The non-empty routes of vehicle type t, and the working routes with the
\* non-empty routes of every vehicle type moved, in their order, to the
\* first slots of the type.
NonEmptySlots(I, rts, t) ==
    {r \in RouteIdxs(I) : RouteVehType(I, r) = t /\ rts[r] # <<>>}
Compacted(I, rts) ==
    [r \in RouteIdxs(I) |->
        LET slots == NonEmptySlots(I, rts, RouteVehType(I, r))
            k == r - VehicleOffset(I, RouteVehType(I, r))
        IN  IF k < Cardinality(slots)
            THEN rts[CHOOSE x \in slots :
                        Cardinality({y \in slots : y < x}) = k]
            ELSE <<>>]

\* C10, amended: loading what unload returned leaves, for every vehicle
\* type, the non-empty routes of the type in their order and with the same
\* sequences of clients and reload depots in the first slots of the type,
\* and the other slots empty.
C10SameRoutesCompacted ==
    pc = "done" => Load(D, routes, nodes, output).routes = Compacted(D, routes)

\* A solution was unloaded whose first slot is empty and whose second is not.
C10Witness ==
    /\ pc = "done"
    /\ routes # Compacted(D, routes)
    /\ Load(D, routes, nodes, output).routes # routes

\* C11: when at least one node operator is installed, every required
\* client is routed in the solution the public search returns, whatever the
\* input solution.
C11RequiredRouted ==
    (Returning /\ op = "search") =>
        \A c \in Clients(D) : D.required[c + 1] => SolRouteOf(ToReturn, c) # 0

\* A public search with node operators returned, started from a solution
\* that left a required client out.
C11Witness ==
    /\ Returning /\ op = "search"
    /\ \E c \in Clients(D) : D.required[c + 1] /\ SolRouteOf(input, c) = 0
    /\ \A c \in Clients(D) : D.required[c + 1] => SolRouteOf(ToReturn, c) # 0

\* The call of Solution::insert the node pass is about to make, if any:
\* for client CurU, with the given value of `required`.
InsertCalled ==
    IF pc = "optional"
    THEN [called |-> D.required[CurU + 1] /\ RouteOf(D, routes, CurU) = NoRoute,
          required |-> TRUE]
    ELSE IF pc = "optInsert"
    THEN [called |-> TRUE, required |-> FALSE]
    ELSE IF pc = "group" /\ D.group[CurU + 1] # 0
    THEN [called |-> GroupInSol(D, routes, D.group[CurU + 1]) = <<>>,
          required |-> D.groups[D.group[CurU + 1]].required]
    ELSE [called |-> FALSE, required |-> FALSE]

\* C12: Solution::insert(U, ..., required) returns true iff it inserted U
\* into a route; it inserts iff required is true or the best candidate cost
\* is below zero; and when it returns false the working solution is as it
\* was.
C12InsertContract ==
    [][ InsertCalled.called =>
          LET req == InsertCalled.required
              best == InsertBest(D, routes, CurU, D.vehTypeOrder)
              ins == SolutionInsert(D, routes, CurU, D.vehTypeOrder, req)
          IN  /\ routes' = ins.routes
              /\ ins.inserted <=> RouteOf(D, routes', CurU) # NoRoute
              /\ ins.inserted <=> (req \/ best.nt.cost < 0)
              /\ ins.inserted => Routed(D, routes') = Routed(D, routes) \cup {CurU}
              /\ ~ins.inserted => (routes' = routes /\ numUpdates' = numUpdates)
              /\ pc = "optInsert" => (pc' = "group" <=> ins.inserted)
      ]_vars

\* Solution::insert, called with required = false, has just put an optional
\* client into a route.
C12Witness ==
    /\ pc = "group"
    /\ lastChange.kind = "insert" /\ lastChange.how = "standard"
    /\ ~D.required[CurU + 1]
    /\ RouteOf(D, routes, CurU) # NoRoute

\* C13: when U belongs to a same-vehicle group that has a routed member,
\* every insertion Solution::insert commits (standard, behind a new reload
\* depot, or as a new trip) puts U into that member's route or into a route
\* whose vehicle name is non-empty and equal to that of the member's
\* vehicle; for every same-vehicle group of U.
C13InsertCompatible ==
    [][ (InsertCalled.called /\ RouteOf(D, routes', CurU) # NoRoute) =>
          \A g \in SameVehicleGroupsOf(D, CurU) :
              \A o \in Range(D.sameVehicleGroups[g]) :
                  (o # CurU /\ RouteOf(D, routes, o) # NoRoute) =>
                      \/ RouteOf(D, routes', CurU) = RouteOf(D, routes, o)
                      \/ SameNonEmptyName(D, RouteOf(D, routes', CurU),
                                          RouteOf(D, routes, o))
      ]_vars

\* C14: Solution::insert commits a new-trip insertion (a reload depot and
\* U just before the end depot) only if U has a prize, the demand of U fits
\* the capacity of the vehicle alone, the best standard candidate costs at
\* least zero, the chosen route is not empty, its vehicle type has reload
\* depots, it has fewer trips than maxTrips and no time warp, the new trip
\* fits the shift duration and the time windows of client and vehicle, and
\* the new-trip cost is below the best standard candidate cost.
C14NewTripOnlyIf ==
    [][ (/\ InsertCalled.called
         /\ SolutionInsert(D, routes, CurU, D.vehTypeOrder,
                           InsertCalled.required).kind = "newtrip") =>
          LET best == InsertBest(D, routes, CurU, D.vehTypeOrder)
              r == best.nt.route
              vt == RouteVT(D, r)
          IN  /\ routes' = [routes EXCEPT ![r] =
                               @ \o <<vt.reloadDepots[1], CurU>>]
              /\ D.prize[CurU + 1] > 0
              /\ ClientDemand(D, CurU) <= vt.capacity
              /\ best.std >= 0
              /\ routes[r] # <<>>
              /\ vt.reloadDepots # <<>>
              /\ NumTrips(D, routes[r]) < MaxTrips(vt)
              /\ TimeWarp(D, vt, routes[r]) = 0
              /\ ~NewTripSkips(D, routes, CurU, r)
              /\ NewTripCost(D, CurU, r) < best.std
      ]_vars

\* Every reload depot of the working routes has a client right before it
\* and a client right after it.
DepotsBetweenClients(rts) ==
    \A r \in DOMAIN rts :
        \A k \in 1..Len(rts[r]) :
            IsDepotLoc(D, rts[r][k]) =>
                /\ 1 < k /\ k < Len(rts[r])
                /\ ~IsDepotLoc(D, rts[r][k - 1])
                /\ ~IsDepotLoc(D, rts[r][k + 1])

\* C15: in every working route reached through load, Solution::insert, the
\* node and route passes and improveWithMultiTrip, no reload depot is next
\* to the start depot, to the end depot or to another reload depot.  Stated
\* for the runs that do not perturb.
C15DepotsBetweenClients ==
    (op \in {"search", "intensify"} \/ (op = "call" /\ exhaustive))
        => DepotsBetweenClients(routes)

\* C16: in every reachable working solution each route has at most
\* maxReloads + 1 trips, so no insertion (standard, reload, new trip or
\* improveWithMultiTrip) adds a reload depot to a route that already has
\* maxTrips trips.
C16TripsBounded ==
    \A r \in RouteIdxs(D) : NumTrips(D, routes[r]) <= MaxTrips(RouteVT(D, r))
\* A new-trip insertion has just filled a route up to its maxTrips trips.
C16Witness ==
    /\ lastChange.kind = "insert"
    /\ lastChange.how = "newtrip"
    /\ \E r \in RouteIdxs(D) :
          /\ NumTrips(D, routes[r]) >= 2
          /\ NumTrips(D, routes[r]) = MaxTrips(RouteVT(D, r))

\* The targets of a move of a node: every route slot, or no route (removal).
MoveTargets == RouteIdxs(D) \cup {NoRoute}
\* Another member of one of u's same-vehicle groups is in route r.
GroupMateIn(u, r) ==
    \E g \in 1..Len(D.sameVehicleGroups) :
        /\ u \in Range(D.sameVehicleGroups[g])
        /\ \E o \in Range(D.sameVehicleGroups[g]) \ {u} :
              RouteOf(D, routes, o) = r
\* C20: wouldViolateSameVehicle(U, target) is true exactly when U is in a
\* same-vehicle group, U is in a route other than target, target and U's
\* route do not share a non-empty equal vehicle name, and another member of
\* one of U's groups is in U's route; with no target (removal) the name
\* exception does not apply.
C20WouldViolateIff ==
    \A u \in Clients(D) : \A target \in MoveTargets :
        LET cur == RouteOf(D, routes, u)
        IN  WouldViolateSameVehicle(D, routes, u, cur, target)
            <=> /\ \E g \in 1..Len(D.sameVehicleGroups) :
                      u \in Range(D.sameVehicleGroups[g])
                /\ cur # NoRoute
                /\ cur # target
                /\ \/ target = NoRoute
                   \/ RouteVT(D, cur).name = ""
                   \/ RouteVT(D, cur).name # RouteVT(D, target).name
                /\ GroupMateIn(u, cur)
\* The client under test shares its route with a group mate: removing it is
\* a violation, while moving it to another route of the same vehicle name is
\* not.
C20Witness ==
    \E u \in {CurU} :
        LET cur == RouteOf(D, routes, u)
        IN  /\ pc \in {"optRemove", "nodeops"}
            /\ cur # NoRoute
            /\ GroupMateIn(u, cur)
            /\ WouldViolateSameVehicle(D, routes, u, cur, NoRoute)
            /\ \E target \in RouteIdxs(D) \ {cur} :
                  /\ RouteVT(D, cur).name # ""
                  /\ RouteVT(D, cur).name = RouteVT(D, target).name
                  /\ ~WouldViolateSameVehicle(D, routes, u, cur, target)

\* The instance of the build_neighbours call, and the proximity matrix it
\* selects from.
NbData == NbInstances[nbArgs.data]
NbBuilt == nbArgs.data # 0 /\ nbArgs.done
NbProx(i, j) ==
    Proximity(NbData, DefaultWeights, nbArgs.symmetricProximity, i, j)
NbListed(i) == Range(nbResult[i])
NbK == Min2(nbArgs.numNeighbours, NbData.numClients - 1)

\* C17: for every mutually exclusive group, no member of the group is in the
\* neighbour list of another member of the group, whatever the instance and
\* the number of neighbours asked for.
C17GroupMatesApart ==
    NbBuilt =>
        \A g \in 1..Len(NbData.groups) :
            NbData.groups[g].mutuallyExclusive =>
                \A i \in Range(NbData.groups[g].clients) :
                    \A j \in Range(NbData.groups[g].clients) \ {i} :
                        j \notin NbListed(i)

\* C18 as stated: with symmetric proximity, j is a neighbour of i exactly
\* when i is a neighbour of j.
C18ListsSymmetric ==
    (NbBuilt /\ nbArgs.symmetricProximity) =>
        \A i \in NbClients(NbData) : \A j \in NbClients(NbData) :
            j \in NbListed(i) <=> i \in NbListed(j)
\* C18: with symmetric proximity the matrix the lists are cut from is
\* symmetric; j is a neighbour of i without i being one of j only when the
\* list of j is full of clients no farther from j than i is; and the lists
\* are symmetric when every client lists all the others.
C18SymmetricUpToCut ==
    (NbBuilt /\ nbArgs.symmetricProximity) =>
        \A i \in NbClients(NbData) : \A j \in NbClients(NbData) :
            /\ DblEq(NbProx(i, j), NbProx(j, i))
            /\ (j \in NbListed(i) /\ i \notin NbListed(j)) =>
                  /\ NbK < NbData.numClients - 1
                  /\ Len(nbResult[j]) = NbK
                  /\ \A m \in NbListed(j) :
                        DblLeq(NbProx(j, m), NbProx(i, j))
\* Distances that differ by direction were symmetrised, and the cut left a
\* client in the list of one that is not in its own.
C18Witness ==
    /\ NbBuilt
    /\ nbArgs.symmetricProximity
    /\ \E i \in NbClients(NbData) : \E j \in NbClients(NbData) :
          /\ ~DblEq(PenalisedEdgeCost(NbData, DefaultWeights, i, j),
                    PenalisedEdgeCost(NbData, DefaultWeights, j, i))
          /\ j \in NbListed(i)
          /\ i \notin NbListed(j)

\* C19: every client's list has exactly min(numNeighbours, numClients - 1)
\* entries, all distinct clients other than itself and no farther from it
\* than any client left out; no depot is in any list and the list of every
\* depot is empty.
C19NearestK ==
    NbBuilt =>
        /\ DOMAIN nbResult = NbLocs(NbData)
        /\ \A d \in NbLocs(NbData) \ NbClients(NbData) : nbResult[d] = <<>>
        /\ \A i \in NbClients(NbData) :
              /\ Len(nbResult[i]) = NbK
              /\ Cardinality(NbListed(i)) = Len(nbResult[i])
              /\ NbListed(i) \subseteq NbClients(NbData) \ {i}
              /\ \A j \in NbListed(i) :
                    \A o \in NbClients(NbData) \ (NbListed(i) \cup {i}) :
                        DblLeq(NbProx(i, j), NbProx(i, o))
\* A list was cut: it has at least one entry, and a client that is left out
\* is strictly farther than an entry of larger index.
C19Witness ==
    /\ NbBuilt
    /\ NbK >= 1
    /\ \E i \in NbClients(NbData) : \E j \in NbListed(i) :
          \E o \in NbClients(NbData) \ (NbListed(i) \cup {i}) :
              o < j /\ DblLess(NbProx(i, j), NbProx(i, o))

\* The call of the construction boundary has returned.
NifDone(fn) == nifCall.fn = fn /\ nifCall.done
\* swap_tails when there is a single vehicle, relocate_with_depot when no
\* vehicle type has reload depots.
Unsupported(I) ==
    {o \in {"swap_tails", "relocate_with_depot"} : ~Supports(I, o)}

\* C21: a driver assembled from operator names is rejected with an error
\* when a named operator's support precondition does not hold for the
\* instance; the paths that check support build the driver without it.
C21UnsupportedRejected ==
    /\ NifDone("local_search_with_operators") =>
          ((\E o \in Unsupported(Instances[nifCall.data]) :
                o \in Range(nifCall.node_operators)
                  \/ o \in Range(nifCall.route_operators))
             => ~nifResult.ok)
    /\ NifDone("create_local_search") =>
          /\ nifResult.ok
          /\ Range(nifResult.nodeOps) \cap Unsupported(Instances[nifCall.data])
                = {}
          /\ Range(nifResult.routeOps) \cap Unsupported(Instances[nifCall.data])
                = {}

\* The penalties given in the call: the elements of load_penalties when it is
\* a list, tw_penalty and dist_penalty when present.
GivenPenalties ==
    (IF nifCall.load_penalties.kind = "list"
     THEN Range(nifCall.load_penalties.val) ELSE {})
      \cup ({nifCall.tw_penalty, nifCall.dist_penalty} \ {Absent})
IsNumber(term) == term.kind \in {"int", "float", "big"}
\* C22 as stated: create_cost_evaluator fails exactly when some penalty is
\* negative, and succeeds when all penalties are non-negative numbers.
C22FailsIffNegative ==
    NifDone("create_cost_evaluator") =>
        /\ ~nifResult.ok <=>
              \E t \in GivenPenalties : t.kind \in {"int", "float"} /\ t.val < 0
        /\ (\A t \in GivenPenalties : IsNumber(t) /\ t.val >= 0)
              => nifResult.ok
\* C22: create_cost_evaluator fails, creating no evaluator, exactly when
\* some given penalty is negative or is not a float or an integer of 64 bits;
\* otherwise it creates the evaluator with the penalties given, 1.0 for an
\* absent tw_penalty or dist_penalty and no load penalties when
\* load_penalties is absent or not a list.
C22FailsIffNegativeOrNotNumber ==
    NifDone("create_cost_evaluator") =>
        LET bad == \E t \in GivenPenalties :
                       t.kind \notin {"int", "float"} \/ t.val < 0
            value(t) == IF t = Absent THEN 1 ELSE t.val
        IN  /\ nifResult.ok <=> ~bad
            /\ DOMAIN nifResult =
                  IF bad THEN {"ok", "error"} ELSE {"ok", "evaluator"}
            /\ ~bad =>
                  /\ nifResult.evaluator.twPenalty = value(nifCall.tw_penalty)
                  /\ nifResult.evaluator.distPenalty
                        = value(nifCall.dist_penalty)
                  /\ nifResult.evaluator.loadPenalties =
                        IF nifCall.load_penalties.kind = "list"
                        THEN [k \in 1..Len(nifCall.load_penalties.val) |->
                                 nifCall.load_penalties.val[k].val]
                        ELSE <<>>
\* The call failed on a negative tw_penalty alone, every penalty a number
\* and the load penalties non-negative.
C22Witness ==
    /\ NifDone("create_cost_evaluator")
    /\ ~nifResult.ok
    /\ \A t \in GivenPenalties : t.kind \in {"int", "float"}
    /\ nifCall.load_penalties.kind = "list"
    /\ Len(nifCall.load_penalties.val) = MaxPenalties
    /\ \A t \in Range(nifCall.load_penalties.val) : t.val >= 0
    /\ nifCall.tw_penalty # Absent
    /\ nifCall.tw_penalty.val < 0
    /\ nifCall.dist_penalty # Absent
    /\ nifCall.dist_penalty.val >= 0

\* Scenario S5: one vehicle with a reload depot, every client fits alone in
\* a trip and has a prize above the cost of a trip of its own, and the
\* clients together do not fit in one trip.
S5Shape(I) ==
    /\ NumVehicles(I) = 1
    /\ RouteVT(I, 0).reloadDepots # <<>>
    /\ \A u \in Clients(I) :
          /\ ClientDemand(I, u) <= RouteVT(I, 0).capacity
          /\ I.prize[u + 1] > NewTripCost(I, u, 0) + I.prize[u + 1]
    /\ SumOver(I.delivery, [k \in 1..I.numClients |-> I.numDepots + k - 1])
          > RouteVT(I, 0).capacity
\* search, with at least one node operator, returns from a run on the empty
\* solution.
SearchedFromEmpty ==
    Returning /\ op = "search" /\ Len(input) = 0
HasMultiTripRoute(sol) == \E k \in 1..Len(sol) : Len(sol[k].trips) >= 2

\* C23: in scenario S5, search from the empty solution returns a solution
\* with a route of two or more trips.
C23MultiTrip ==
    (SearchedFromEmpty /\ S5Shape(D)) => HasMultiTripRoute(ToReturn)

\* The slot Solution::load assigns to route k of solution sol: the first
\* slot of its vehicle type plus the number of earlier routes of that type.
SlotOf(I, sol, k) ==
    VehicleOffset(I, sol[k].vehicleType)
      + Cardinality({j \in 1..(k - 1) : sol[j].vehicleType = sol[k].vehicleType})

\* The position in the working route of visit p of trip ti of a route of
\* the solution: one delimiter precedes every trip but the first.
PositionOf(solRoute, ti, p) ==
    LET RECURSIVE Before(_)
        Before(j) == IF j = 0 THEN 0
                     ELSE Len(solRoute.trips[j].visits) + 1 + Before(j - 1)
    IN  Before(ti - 1) + p

\* How many times client c occurs in the working routes rts.
Occurrences(I, rts, c) ==
    LET RECURSIVE Sum(_)
        Sum(r) == IF r < 0 THEN 0
                  ELSE Cardinality({k \in 1..Len(rts[r]) : rts[r][k] = c})
                         + Sum(r - 1)
    IN  Sum(NumVehicles(I) - 1)

Loaded == pc = "loaded"

\* C24: after load(s), from any working state left by an earlier operation,
\* every client visited in s sits once, in the slot assigned to its route of
\* s and at its position there, and its node points to that route; clients
\* s does not visit are in no route and their nodes point to none; the
\* routes of s fill the first slots of their vehicle type in order and every
\* other slot is empty.
C24LoadedAsGiven ==
    Loaded =>
        /\ \A k \in 1..Len(input) :
              \A ti \in 1..Len(input[k].trips) :
                \A p \in 1..Len(input[k].trips[ti].visits) :
                  LET c == input[k].trips[ti].visits[p]
                      slot == SlotOf(D, input, k)
                      pos == PositionOf(input[k], ti, p)
                  IN  /\ Occurrences(D, routes, c) = 1
                      /\ routes[slot][pos] = c
                      /\ nodes[c] = slot
        /\ \A c \in Clients(D) :
              SolRouteOf(input, c) = 0
                  => (Occurrences(D, routes, c) = 0 /\ nodes[c] = NoRoute)
        /\ \A r \in RouteIdxs(D) :
              (\A k \in 1..Len(input) : SlotOf(D, input, k) # r)
                  => routes[r] = <<>>
        /\ \A k \in 1..Len(input) :
              /\ SlotOf(D, input, k) \in RouteIdxs(D)
              /\ RouteVehType(D, SlotOf(D, input, k)) = input[k].vehicleType
              /\ \A j \in 1..(k - 1) :
                    input[j].vehicleType = input[k].vehicleType
                        => SlotOf(D, input, j) < SlotOf(D, input, k)

\* A load of a route of two trips into a slot before the one that held a
\* client of its second trip: the client was pushed into the new route
\* while the old one still listed it, the old one was cleared afterwards,
\* and the client's node points to the new route.
C24Witness ==
    /\ Loaded
    /\ \E k \in 1..Len(input) :
          \E ti \in 2..Len(input[k].trips) :
            \E p \in 1..Len(input[k].trips[ti].visits) :
              LET c == input[k].trips[ti].visits[p]
              IN  /\ SolRouteOf(output, c) # 0
                  /\ SlotOf(D, input, k) < SolRouteOf(output, c) - 1
                  /\ routes[SlotOf(D, input, k)][PositionOf(input[k], ti, p)] = c
                  /\ nodes[c] = SlotOf(D, input, k)

\* The members of a set of numbers in increasing order.
Ascending(S) ==
    [j \in 1..Cardinality(S) |->
        CHOOSE x \in S : Cardinality({y \in S : y < x}) = j - 1]

\* The positions that bound the trips of working route s: before its first
\* node, at each reload depot, and after its last node.
TripBounds(I, s) ==
    Ascending({0, Len(s) + 1} \cup {k \in 1..Len(s) : IsDepotLoc(I, s[k])})

\* The slots that hold a route, in slot order.
UsedSlots(I, rts) == Ascending({r \in RouteIdxs(I) : rts[r] # <<>>})

Returned == pc = "done"

\* C25: unload returns one route per non-empty working route, in slot order
\* and with the slot's vehicle type; its trips are the runs of clients
\* between consecutive depots of the working route, each with the depots
\* that precede and follow it; as many trips are built as numTrips() says.
C25UnloadedAsHeld ==
    Returned =>
        LET slots == UsedSlots(D, routes)
        IN  /\ Len(output) = Len(slots)
            /\ UnloadAssertion(D, routes)
            /\ \A k \in 1..Len(slots) :
                  LET s == routes[slots[k]]
                      vt == RouteVT(D, slots[k])
                      b == TripBounds(D, s)
                      trips == output[k].trips
                  IN  /\ output[k].vehicleType = RouteVehType(D, slots[k])
                      /\ Len(trips) = Len(b) - 1
                      /\ Len(trips) = NumTrips(D, s)
                      /\ \A j \in 1..Len(trips) :
                            /\ trips[j].visits = SubSeq(s, b[j] + 1, b[j + 1] - 1)
                            /\ \A x \in Range(trips[j].visits) :
                                  ~IsDepotLoc(D, x)
                            /\ trips[j].startDepot =
                                  (IF b[j] = 0 THEN vt.startDepot ELSE s[b[j]])
                            /\ trips[j].endDepot =
                                  (IF b[j + 1] = Len(s) + 1 THEN vt.endDepot
                                   ELSE s[b[j + 1]])

\* An operation returns a route of several trips from a slot that is not
\* the first.
C25Witness ==
    /\ Returned
    /\ \E k \in 1..Len(output) : Len(output[k].trips) >= 2
    /\ \E r \in RouteIdxs(D) : routes[r] = <<>> /\ r < NumVehicles(D) - 1
                                  /\ routes[r + 1] # <<>>

\* The members of the group of the visited client U that are in a route.
GroupOfU == D.groups[D.group[CurU + 1]]
GroupRouted(rts) ==
    {c \in Range(GroupOfU.clients) : RouteOf(D, rts, c) # NoRoute}
InGroupMoves == pc \in {"group", "groupRemove", "groupSwap"}

\* C26: applyGroupMoves(U) on a client of a mutually exclusive group: with
\* no member routed on entry, at most U is routed on exit, and U is when the
\* group is required; with a member routed on entry the call goes through
\* its removals to the swap, and exactly one member is routed on exit.
C26OneMemberLeft ==
    [][/\ (pc = "group" /\ D.group[CurU + 1] # 0 /\ GroupRouted(routes) = {})
            => /\ pc' = "afterGroup"
               /\ GroupRouted(routes') \subseteq {CurU}
               /\ GroupOfU.required => GroupRouted(routes') = {CurU}
       /\ (pc = "group" /\ D.group[CurU + 1] # 0 /\ GroupRouted(routes) # {})
            => /\ pc' = "groupRemove"
               /\ routes' = routes
               /\ Range(fr'.gq) \cup {fr'.gv} = GroupRouted(routes)
               /\ fr'.gv \notin Range(fr'.gq)
       /\ pc = "groupRemove"
            => /\ pc' \in {"groupRemove", "groupSwap"}
               /\ GroupRouted(routes) = Range(fr.gq) \cup {fr.gv}
               /\ GroupRouted(routes') = Range(fr'.gq) \cup {fr.gv}
               /\ fr'.gv = fr.gv
               /\ pc' = "groupSwap" <=> fr.gq = <<>>
       /\ pc = "groupSwap"
            => /\ pc' = "afterGroup"
               /\ GroupRouted(routes) = {fr.gv}
               /\ Cardinality(GroupRouted(routes')) = 1
       /\ (InGroupMoves /\ pc' = "afterGroup") => fr'.ci = fr.ci]_vars

\* The three ways out of applyGroupMoves: two routed members reduced to
\* one, U swapped in for the remaining one, and U inserted because its
\* group is required though it pays nothing.
C26Witness ==
    /\ pc = "afterGroup" /\ D.group[CurU + 1] # 0
    /\ lastChange.kind \in {"groupRemove", "groupSwap"}
    /\ GroupRouted(routes) = {CurU}
    /\ \E c \in Range(GroupOfU.clients) : c # CurU /\ SolRouteOf(input, c) # 0
    /\ SolRouteOf(input, CurU) # 0

C26RequiredWitness ==
    /\ pc = "afterGroup" /\ D.group[CurU + 1] # 0
    /\ GroupOfU.required /\ lastChange.kind = "required"
    /\ GroupRouted(routes) = {CurU}

\* A step that loads a solution (LocalSearch::loadSolution).
LoadStep == pc \in Idle /\ pc' \notin Idle

\* The step changes a working route other than by loading.
RouteChanged == routes' # routes /\ ~LoadStep

\* What LocalSearch::update leaves behind for a change of the routes.
Stamped ==
    /\ numUpdates' = numUpdates + 1
    /\ searchCompleted' = FALSE
    /\ \A r \in RouteIdxs(D) :
          routes'[r] # routes[r] => lastUpdated'[r] = numUpdates'

StampsInRange ==
    /\ \A r \in RouteIdxs(D) :
          lastUpdated[r] <= numUpdates /\ lastTestedRoutes[r] <= numUpdates
    /\ \A x \in DOMAIN lastTestedNodes : lastTestedNodes[x] <= numUpdates

\* C27 as stated: every change of a working route is stamped, and the
\* stamps never exceed numUpdates.
C27EveryChangeStamped ==
    [][RouteChanged => Stamped]_vars /\ []StampsInRange

\* C27, amended: the moves accepted in the node pass and in the route pass
\* are stamped; the trips improveWithMultiTrip appends and the moves of the
\* perturbation change the routes and leave numUpdates, lastUpdated and
\* searchCompleted as they were; the stamps never exceed numUpdates.
C27AcceptedMovesStamped ==
    /\ [][RouteChanged =>
            IF pc \in {"multitrip", "perturb"}
            THEN UNCHANGED <<numUpdates, lastUpdated, searchCompleted>>
            ELSE Stamped]_vars
    /\ []StampsInRange

\* A move between two routes was accepted and both carry its stamp, after
\* an earlier move.
C27Witness ==
    /\ numUpdates >= 2
    /\ lastChange.kind \notin {"none", "perturb"}
    /\ pc \notin {"multitrip", "unload", "done", "perturb"}
    /\ \E r1, r2 \in RouteIdxs(D) :
          /\ r1 # r2
          /\ lastUpdated[r1] = numUpdates /\ lastUpdated[r2] = numUpdates
    /\ ~searchCompleted

\* The node pass is at the head of the visit of a promising client.
VisitsPromising ==
    pc = "visit" /\ fr.ci <= Len(clientOrder) /\ CurU \in promising

\* The steps of applyOptionalClientMoves.
OptionalPcs == {"optional", "optRemove", "optInsert", "optReplace"}

\* The steps of the node pass take up the optional moves when they are due.
OptionalMovesStep ==
    /\ VisitsPromising =>
          (/\ pc' \in {"optional", "group"}
           /\ (pc' = "optional") <=>
                 (\/ lastTestedNodes[CurU] = 0 - 1
                  \/ /\ CurU \in Routed(D, routes)
                     /\ lastUpdated[RouteOf(D, routes, CurU)]
                           > lastTestedNodes[CurU])
           /\ (lastTestedNodes[CurU] >= 0 /\ CurU \notin Routed(D, routes))
                 => (pc' = "group" /\ routes' = routes)
           /\ lastTestedNodes'[CurU] = numUpdates)
    /\ (pc \notin OptionalPcs /\ pc' \in OptionalPcs)
          => (VisitsPromising /\ pc' = "optional")
    /\ (pc = "visit" /\ ~VisitsPromising) => (pc' \in {"visit", "step"})
    /\ (pc # "visit" /\ ~LoadStep) => (lastTestedNodes' = lastTestedNodes)

\* C28: in the node pass applyOptionalClientMoves runs for a promising client
\* U exactly when U was not visited since the load, or U is in a route that
\* was updated after U's previous visit; so a client that was visited
\* before and is in no route is passed on without these moves.
C28OptionalMovesWhenDue ==
    /\ [][OptionalMovesStep]_vars
    /\ [](pc = "optional" =>
             (\/ fr.lastTested = 0 - 1
              \/ /\ CurU \in Routed(D, routes)
                 /\ lastUpdated[RouteOf(D, routes, CurU)] > fr.lastTested))

\* A client with a prize that was visited before and is in no route is
\* passed on to the group moves although a route was updated since.
C28Witness ==
    /\ pc = "group" /\ fr.lastTested >= 0
    /\ CurU \notin Routed(D, routes)
    /\ lastTestedNodes[CurU] = numUpdates
    /\ D.prize[CurU + 1] > 0
    /\ \E r \in RouteIdxs(D) : lastUpdated[r] > fr.lastTested

\* The neighbour the loop over neighboursOf(U) is at, and the one before.
AtNeighbour == pc = "nodeops" /\ fr.vi <= Len(D.neighbours[CurU + 1])
CurV == D.neighbours[CurU + 1][fr.vi]
PrevV == D.neighbours[CurU + 1][fr.vi - 1]

\* The route of client c was updated after the previous visit of U.
UpdatedSince(c) == lastUpdated[RouteOf(D, routes, c)] > fr.lastTested

\* The pair (U, V) is due: V is routed and one of the two routes changed.
PairDue ==
    /\ CurV \in Routed(D, routes)
    /\ UpdatedSince(CurU) \/ UpdatedSince(CurV)

\* The steps of a visit after its head.
VisitPcs ==
    {"optional", "optRemove", "optInsert", "optReplace", "group",
     "groupRemove", "groupSwap", "afterGroup", "depotPrev", "depotNext",
     "nodeops", "emptyRoutes"}

\* One neighbour of the loop: nothing is applied for a pair that is not
\* due; for a pair that is due the move of (U, V) is applied if there is
\* one, else that of (U, p(V)) if p(V) is the start depot, else nothing.
NodeOpsStep ==
    /\ VisitsPromising => (fr'.lastTested = lastTestedNodes[CurU])
    /\ (pc \in VisitPcs /\ pc' \in VisitPcs) => (fr'.lastTested = fr.lastTested)
    /\ (AtNeighbour /\ ~PairDue)
          => (routes' = routes /\ lastMove' = lastMove
               /\ numUpdates' = numUpdates)
    /\ (AtNeighbour /\ PairDue)
          => LET U == ClientNode(D, routes, CurU)
                 V == ClientNode(D, routes, CurV)
                 onV == ApplyNodeOps(D, routes, nodeOps, U, V)
                 onDepot == ApplyNodeOps(D, routes, nodeOps, U, Node(V.r, 0))
             IN  routes' = IF onV.applied THEN onV.routes
                           ELSE IF V.idx = 1 /\ onDepot.applied
                                THEN onDepot.routes
                                ELSE routes
    /\ AtNeighbour => (pc' = "nodeops" /\ fr'.vi = fr.vi + 1)

\* C29: in the node pass the node operators act on a pair (U, V) only if V
\* is in a route and the route of U or of V was updated after the previous
\* visit of U, which is always so on the first visit after a load; they act
\* on (U, p(V)) only if p(V) is the start depot and no operator improved on
\* (U, V).
C29PairsWhenDue ==
    /\ [][NodeOpsStep]_vars
    /\ [](pc \in VisitPcs /\ fr.lastTested = 0 - 1
            => \A r \in RouteIdxs(D) : lastUpdated[r] > fr.lastTested)

\* A pair was passed over: U was visited before, an update was made since,
\* but not to the route of U or of the neighbour just passed.
C29Witness ==
    /\ pc = "nodeops" /\ fr.vi > 1 /\ fr.lastTested >= 0
    /\ numUpdates > fr.lastTested
    /\ PrevV \in Routed(D, routes)
    /\ ~UpdatedSince(CurU) /\ ~UpdatedSince(PrevV)

\* The empty routes of the k-th vehicle type of vehTypeOrder.
EmptyOfType(k) ==
    {r \in RouteIdxs(D) :
        RouteVehType(D, r) = D.vehTypeOrder[k] /\ routes[r] = <<>>}

\* The one empty route applyEmptyRouteMoves tries for that vehicle type.
TriedOfType(k) == CHOOSE r \in EmptyOfType(k) : \A q \in EmptyOfType(k) : r <= q

\* The move of U into the route tried for the k-th vehicle type.
MoveIntoEmpty(k) ==
    ApplyNodeOps(D, routes, nodeOps, ClientNode(D, routes, CurU),
                 Node(TriedOfType(k), 0))

\* The vehicle types, by their place in vehTypeOrder, whose tried empty
\* route takes U with an improvement.
ImprovingTypes ==
    {k \in 1..Len(D.vehTypeOrder) :
        EmptyOfType(k) # {} /\ MoveIntoEmpty(k).applied}

FirstImprovingType ==
    CHOOSE k \in ImprovingTypes : \A j \in ImprovingTypes : k <= j

\* The routes that are empty before the step stay empty.
EmptyStayEmpty == \A r \in RouteIdxs(D) : routes[r] = <<>> => routes'[r] = <<>>

\* The steps of the node pass as far as empty routes go.
EmptyRoutesStep ==
    /\ (pc \in VisitPcs /\ fr.step = 0 /\ lastMove' # lastMove) => EmptyStayEmpty
    /\ (pc = "nodeops" /\ lastMove' # lastMove) => EmptyStayEmpty
    /\ (pc = "nodeops" /\ pc' = "emptyRoutes") => fr.step > 0
    /\ (pc # "nodeops" /\ pc' = "emptyRoutes") => pc = "emptyRoutes"
    /\ pc = "emptyRoutes"
          => /\ pc' = "visit" /\ fr'.ci = fr.ci + 1
             /\ routes' = IF ImprovingTypes = {} THEN routes
                           ELSE MoveIntoEmpty(FirstImprovingType).routes
             /\ Cardinality({r \in RouteIdxs(D) :
                                routes[r] = <<>> /\ routes'[r] # <<>>}) <= 1
             /\ \A r \in RouteIdxs(D) :
                   (routes[r] = <<>> /\ routes'[r] # <<>>)
                       => (/\ ImprovingTypes # {}
                           /\ r = TriedOfType(FirstImprovingType)
                           /\ CurU \in Range(routes'[r]))

\* C30: no node-operator move into an empty route is made in step 0 of a
\* node pass; from step 1 on, for the routed client U, the first empty
\* route of each vehicle type is the only one tried, the types are taken in
\* vehTypeOrder, and the first improving move is the one applied.
C30EmptyRoutesLater ==
    /\ [][EmptyRoutesStep]_vars
    /\ [](pc = "emptyRoutes" => fr.step > 0 /\ CurU \in Routed(D, routes))

\* From step 1 on U has moved into the first of several empty routes.
C30Witness ==
    /\ pc = "visit" /\ fr.step > 0 /\ fr.ci > 1
    /\ lastMove.kind = "node" /\ lastUpdated[lastMove.pair[2]] = numUpdates
    /\ lastMove.pair[1] # lastMove.pair[2]
    /\ routes[lastMove.pair[2]] = <<clientOrder[fr.ci - 1]>>
    /\ lastTestedNodes[clientOrder[fr.ci - 1]] = numUpdates - 1
    /\ \E r \in RouteIdxs(D) : r > lastMove.pair[2] /\ routes[r] = <<>>
    /\ \A r \in RouteIdxs(D) : r < lastMove.pair[2] => routes[r] # <<>>

\* The route pass is at route U of routeOrder, and at the pair (U, V).
SweepsRoute == pc = "iroute" /\ fr.ri <= Len(D.routeOrder)
AtRoutePair == pc = "ipair" /\ fr.rj < NumVehicles(D)
SweepU == D.routeOrder[fr.ri]

\* The pair (U, V) is due: both routes hold clients, U comes before V, and
\* one of them was updated after U was last swept.
RoutePairDue ==
    /\ routes[SweepU] # <<>> /\ routes[fr.rj] # <<>>
    /\ SweepU < fr.rj
    /\ lastUpdated[SweepU] > fr.lastTested \/ lastUpdated[fr.rj] > fr.lastTested

\* The steps of the route pass.
RoutePassStep ==
    /\ (pc = "intensify" /\ D.routeOps = <<>>)
          => (/\ pc' = "afterIntensify"
              /\ UNCHANGED <<routes, numUpdates, lastUpdated, lastTestedRoutes,
                             searchCompleted>>)
    /\ (pc = "intensify" /\ D.routeOps # <<>>)
          => (pc' = "sweep" /\ ~searchCompleted' /\ routes' = routes)
    /\ pc = "sweep"
          => (/\ routes' = routes
              /\ IF searchCompleted THEN pc' = "afterIntensify"
                 ELSE pc' = "iroute" /\ fr'.ri = 1 /\ searchCompleted')
    /\ pc = "iroute" => (routes' = routes /\ searchCompleted' = searchCompleted)
    /\ (pc = "iroute" /\ ~SweepsRoute) => pc' = "sweep"
    /\ (SweepsRoute /\ routes[SweepU] = <<>>)
          => (pc' = "iroute" /\ fr'.ri = fr.ri + 1
               /\ lastTestedRoutes' = lastTestedRoutes)
    /\ (SweepsRoute /\ routes[SweepU] # <<>>)
          => (/\ pc' = "ipair" /\ fr'.rj = SweepU + 1 /\ fr'.ri = fr.ri
              /\ fr'.lastTested = lastTestedRoutes[SweepU]
              /\ lastTestedRoutes'[SweepU] = numUpdates)
    /\ pc = "ipair" => fr'.lastTested = fr.lastTested
    /\ (pc = "ipair" /\ ~AtRoutePair) => (pc' = "iroute" /\ fr'.ri = fr.ri + 1)
    /\ AtRoutePair => (pc' = "ipair" /\ fr'.rj = fr.rj + 1)
    /\ (AtRoutePair /\ ~RoutePairDue)
          => (/\ routes' = routes /\ lastMove' = lastMove
              /\ numUpdates' = numUpdates
              /\ searchCompleted' = searchCompleted)
    /\ (AtRoutePair /\ RoutePairDue)
          => LET res == ApplyRouteOps(D, routes, D.routeOps, SweepU, fr.rj)
             IN  /\ routes' = IF res.applied THEN res.routes ELSE routes
                 /\ searchCompleted' = (searchCompleted /\ ~res.applied)

\* C31: in the route pass the route operators act only on pairs of distinct
\* non-empty routes (U, V), U before V, of which one was updated after the
\* value lastTested[U] had when the sweep of U began; sweeps follow one
\* another until one makes no update; without route operators the pass
\* changes nothing.
C31RoutePairsWhenDue ==
    /\ [][RoutePassStep]_vars
    /\ [](pc = "ipair" => routes[SweepU] # <<>> /\ fr.rj > SweepU)

\* A pair of non-empty routes was passed over in a later route pass: no
\* route of the pair was updated since U was last swept.
C31Witness ==
    /\ pc = "ipair" /\ fr.rj > SweepU + 1 /\ fr.lastTested >= 0
    /\ routes[SweepU] # <<>> /\ routes[fr.rj - 1] # <<>>
    /\ lastUpdated[SweepU] <= fr.lastTested
    /\ lastUpdated[fr.rj - 1] <= fr.lastTested
    /\ lastMove.kind = "route"

\* The clients of the trip of route s that holds the place right behind the
\* node at index idx: those between the last reload depot at or before idx
\* and the first one after it.
TripAround(I, s, idx) ==
    LET lo == MaxOf({0} \cup {k \in 1..idx : IsReloadDepotAt(I, s, k)})
        hi == MinOf({Len(s) + 1}
                      \cup {k \in (idx + 1)..Len(s) : IsReloadDepotAt(I, s, k)})
    IN  SubSeq(s, lo + 1, hi - 1)

\* Client u added to that trip is more than the vehicle can carry.
TripWouldExceed(I, rts, u, after) ==
    LET trip == TripAround(I, rts[after.r], after.idx)
    IN  Max2(SumOver(I.delivery, trip) + I.delivery[u + 1],
             SumOver(I.pickup, trip) + I.pickup[u + 1])
          > RouteVT(I, after.r).capacity

\* The step is a call of Solution::insert that commits an insertion behind
\* the node it found best, not a new trip at the end of a route.
CommitsBehindBest ==
    /\ InsertCalled.called
    /\ SolutionInsert(D, routes, CurU, D.vehTypeOrder,
                      InsertCalled.required).kind \in {"standard", "reload"}

\* C32: a standard insertion of U behind UAfter puts a reload depot right
\* before U iff the vehicle type of the route has reload depots, the route
\* has fewer trips than it may have, and U added to the load of the trip
\* that holds the insertion point is more than the capacity; otherwise U
\* alone is placed at UAfter.idx + 1.
C32ReloadIffTripExceeds ==
    [][CommitsBehindBest =>
         LET after == InsertBest(D, routes, CurU, D.vehTypeOrder).after
             vt == RouteVT(D, after.r)
             s == routes[after.r]
             reload == /\ vt.reloadDepots # <<>>
                       /\ NumTrips(D, s) < vt.maxReloads + 1
                       /\ TripWouldExceed(D, routes, CurU, after)
         IN  routes' = [routes EXCEPT ![after.r] =
                           IF reload
                           THEN InsertAt(s, after.idx + 1,
                                         <<vt.reloadDepots[1], CurU>>)
                           ELSE InsertAt(s, after.idx + 1, <<CurU>>)]]_vars

\* Route r can take client u as a new last trip, as improveWithMultiTrip
\* sees it.
TakesNewTrip(r, u) ==
    LET s == routes[r]
        vt == RouteVT(D, r)
    IN  /\ s # <<>>
        /\ IsFeasible(D, vt, s)
        /\ vt.reloadDepots # <<>>
        /\ NumTrips(D, s) < vt.maxReloads + 1
        /\ Max2(D.delivery[u + 1], D.pickup[u + 1]) <= vt.capacity
        /\ BelowMax(vt.shiftDuration)
              => Duration(D, vt, s) + Dur(D, vt.reloadDepots[1], u)
                   + D.service[u + 1] + Dur(D, u, vt.reloadDepots[1])
                   + D.depotService[vt.reloadDepots[1] + 1]
                   <= vt.shiftDuration[1]
        /\ Dist(D, vt.reloadDepots[1], u) + Dist(D, u, vt.reloadDepots[1])
              - D.prize[u + 1] < 0

\* A step of improveWithMultiTrip: it looks at one client; if it changes
\* the routes, the client was in no route and has a prize, and a reload
\* depot and the client now end a route that could take the trip.
MultiTripStep ==
    pc = "multitrip" =>
        /\ pc' \in {"multitrip", "unload"}
        /\ pc' = "multitrip" => fr'.mi = fr.mi + 1
        /\ routes' # routes =>
              /\ pc' = "multitrip"
              /\ fr.mi \in Clients(D) \ Routed(D, routes)
              /\ D.prize[fr.mi + 1] > 0
              /\ \E r \in RouteIdxs(D) :
                    /\ TakesNewTrip(r, fr.mi)
                    /\ routes' = [routes EXCEPT ![r] =
                          routes[r] \o <<RouteVT(D, r).reloadDepots[1], fr.mi>>]

\* C33: improveWithMultiTrip inserts a client only if it is in no route, has
\* a prize, and some non-empty feasible route with reload depots and a trip
\* to spare can carry it alone within the shift at a round trip cheaper
\* than the prize; the reload depot and the client then come right before
\* the end depot of such a route, and no client is inserted twice.
C33NewTripOnlyIfPays ==
    [][MultiTripStep]_vars

\* improveWithMultiTrip has just given a client a trip of its own, in a
\* route whose vehicle type has a shift duration below max().
C33Witness ==
    /\ pc = "multitrip" /\ lastChange.kind = "multitrip"
    /\ fr.mi - 1 \in Routed(D, routes)
    /\ \E r \in RouteIdxs(D) :
          /\ BelowMax(RouteVT(D, r).shiftDuration)
          /\ Len(routes[r]) >= 3
          /\ routes[r][Len(routes[r])] = fr.mi - 1
          /\ IsDepotLoc(D, routes[r][Len(routes[r]) - 1])

(***************************************************************************)
(* The node and route resources of the binding.  A heap node is a number   *)
(* 1..Len(searchNodes); a route resource is a number 1..Len(searchRoutes), *)
(* and 0 stands for nullptr.  Only client nodes are kept: the depots of a  *)
(* route belong to the Route object, and position k of a node list is      *)
(* index k of the route (index 0 is the start depot).                      *)
(***************************************************************************)
MaxSearchNodes == 3
MaxSearchRoutes == 2
MaxNodeHandles == 2
MaxVisits == 1

NullRoute == 0

\* The heap as the Route operations see it.
Heap(ns, rs) == [nodes |-> ns, routes |-> rs]

\* Position of the first entry of s equal to x, or 0.
FirstIndex(s, x) ==
    IF x \in Range(s) THEN MinOf({k \in 1..Len(s) : s[k] = x}) ELSE 0

\* `for (after = idx; after != size; ++after) nodes[after]->idx_ = after`.
Renumber(ns, list, from) ==
    [n \in DOMAIN ns |->
        LET at == {k \in from..Len(list) : list[k] = n}
        IN  IF at = {} THEN ns[n] ELSE [ns[n] EXCEPT !.idx = MaxOf(at)]]

\* Route::insert(idx, node) of route r; Route::push_back(node) is the
\* insertion before the end depot.
HeapInsert(S, r, idx, n) ==
    LET list == InsertAt(S.routes[r].nodes, idx, <<n>>)
        assigned == [S.nodes EXCEPT ![n] = [route |-> r, idx |-> idx]]
    IN  Heap(Renumber(assigned, list, idx),
             [S.routes EXCEPT ![r].nodes = list])

\* Route::remove(idx) of route r.
HeapRemove(S, r, idx) ==
    LET n == S.routes[r].nodes[idx]
        list == RemoveAt(S.routes[r].nodes, idx)
        unassigned == [S.nodes EXCEPT ![n] = [route |-> NullRoute, idx |-> 0]]
    IN  Heap(Renumber(unassigned, list, idx),
             [S.routes EXCEPT ![r].nodes = list])

\* Route::clear() of route r, as RouteClear: the nodes it lists that point
\* to it are unassigned.
HeapClear(S, r) ==
    Heap([n \in DOMAIN S.nodes |->
             IF n \in Range(S.routes[r].nodes) /\ S.nodes[n].route = r
             THEN [route |-> NullRoute, idx |-> 0] ELSE S.nodes[n]],
         [S.routes EXCEPT ![r].nodes = <<>>])

\* Route::swap(first, second).
HeapSwap(S, first, second) ==
    LET f == S.nodes[first]
        s == S.nodes[second]
        rs1 == IF f.route = NullRoute THEN S.routes
               ELSE [S.routes EXCEPT ![f.route].nodes[f.idx] = second]
        rs2 == IF s.route = NullRoute THEN rs1
               ELSE [rs1 EXCEPT ![s.route].nodes[s.idx] = first]
    IN  Heap([S.nodes EXCEPT ![first] = s, ![second] = f], rs2)

\* What Route keeps true of its nodes: the entry at index k of the node
\* list of route r has route() = r and idx() = k, and a node with a route()
\* is the entry at its idx().  The Route operations are defined on such a
\* heap only, and the calls are followed up to the first heap that is not.
Coherent(S) ==
    /\ \A r \in DOMAIN S.routes : \A k \in 1..Len(S.routes[r].nodes) :
          S.nodes[S.routes[r].nodes[k]] = [route |-> r, idx |-> k]
    /\ \A n \in DOMAIN S.nodes :
          S.nodes[n].route # NullRoute =>
              /\ S.nodes[n].idx \in 1..Len(S.routes[S.nodes[n].route].nodes)
              /\ S.routes[S.nodes[n].route].nodes[S.nodes[n].idx] = n

\* Exchange<1, 0>::apply(U, V) and the node move of
\* RelocateWithDepot::apply(U, V): U leaves its route and goes after V.
HeapMoveAfter(S, U, V) ==
    LET removed == HeapRemove(S, S.nodes[U].route, S.nodes[U].idx)
    IN  HeapInsert(removed, removed.nodes[V].route, removed.nodes[V].idx + 1, U)

\* SwapRoutes::apply(U, V): the two routes exchange their clients.
HeapSwapRoutes(S, r1, r2) ==
    LET l1 == S.routes[r1].nodes
        l2 == S.routes[r2].nodes
    IN  Heap([n \in DOMAIN S.nodes |->
                 IF n \in Range(l1)
                 THEN [route |-> r2, idx |-> FirstIndex(l1, n)]
                 ELSE IF n \in Range(l2)
                 THEN [route |-> r1, idx |-> FirstIndex(l2, n)]
                 ELSE S.nodes[n]],
             [S.routes EXCEPT ![r1].nodes = l2, ![r2].nodes = l1])

\* The heap once the node lists of its routes are lists: every listed node
\* has its route and index, as Route::insert and Route::remove leave them.
Relisted(S, lists) ==
    Heap([n \in DOMAIN S.nodes |->
             IF \E r \in DOMAIN lists : n \in Range(lists[r])
             THEN LET r == CHOOSE q \in DOMAIN lists : n \in Range(lists[q])
                  IN  [route |-> r, idx |-> FirstIndex(lists[r], n)]
             ELSE S.nodes[n]],
         [r \in DOMAIN S.routes |-> [S.routes[r] EXCEPT !.nodes = lists[r]]])

\* The node lists of the routes of S.
Lists(S) == [r \in DOMAIN S.routes |-> S.routes[r].nodes]

\* The part of list from index a to its end.
From(list, a) == SubSeq(list, a, Len(list))

\* Exchange<N, M>::apply(U, V): the N nodes from U on and the M nodes from V
\* on change places; with M = 0 the N nodes go behind V.
HeapExchange(S, N, M, U, V) ==
    LET rU == S.nodes[U].route
        iU == S.nodes[U].idx
        rV == S.nodes[V].route
        iV == S.nodes[V].idx
        lU == S.routes[rU].nodes
        lV == S.routes[rV].nodes
        segU == SubSeq(lU, iU, iU + N - 1)
        segV == SubSeq(lV, iV, iV + M - 1)
        without == SubSeq(lU, 1, iU - 1) \o From(lU, iU + N)
        behindV == FirstIndex(without, V)
        within ==
            IF M = 0
            THEN SubSeq(without, 1, behindV) \o segU \o From(without, behindV + 1)
            ELSE IF iU < iV
            THEN SubSeq(lU, 1, iU - 1) \o segV \o SubSeq(lU, iU + N, iV - 1)
                   \o segU \o From(lU, iV + M)
            ELSE SubSeq(lU, 1, iV - 1) \o segU \o SubSeq(lU, iV + M, iU - 1)
                   \o segV \o From(lU, iU + N)
        intoV == IF M = 0
                 THEN SubSeq(lV, 1, iV) \o segU \o From(lV, iV + 1)
                 ELSE SubSeq(lV, 1, iV - 1) \o segU \o From(lV, iV + M)
    IN  Relisted(S, IF rU = rV
                    THEN [Lists(S) EXCEPT ![rU] = within]
                    ELSE [Lists(S) EXCEPT
                             ![rU] = SubSeq(lU, 1, iU - 1) \o segV
                                       \o From(lU, iU + N),
                             ![rV] = intoV])

\* SwapTails::apply(U, V): the nodes behind U and the nodes behind V change
\* routes.
HeapSwapTails(S, U, V) ==
    LET rU == S.nodes[U].route
        iU == S.nodes[U].idx
        rV == S.nodes[V].route
        iV == S.nodes[V].idx
        lU == S.routes[rU].nodes
        lV == S.routes[rV].nodes
    IN  Relisted(S, [Lists(S) EXCEPT
                        ![rU] = SubSeq(lU, 1, iU) \o From(lV, iV + 1),
                        ![rV] = SubSeq(lV, 1, iV) \o From(lU, iU + 1)])

\* SwapStar::apply(U, V) for the best move that evaluate stored: the client
\* at index iU of route r1 goes to index toV of route r2, and the client
\* at index iV of r2 to index toU of r1.
HeapSwapStar(S, r1, r2, iU, iV, toU, toV) ==
    LET l1 == RemoveAt(S.routes[r1].nodes, iU)
        l2 == RemoveAt(S.routes[r2].nodes, iV)
    IN  Relisted(S, [Lists(S) EXCEPT
                        ![r1] = InsertAt(l1, toU, <<S.routes[r2].nodes[iV]>>),
                        ![r2] = InsertAt(l2, toV, <<S.routes[r1].nodes[iU]>>)])

\* prepare_node_transfer(route_resource, node_resource), as
\* [heap, transfer].
PrepareNodeTransfer(S, r, handle) ==
    IF handle.owned THEN [heap |-> S, transfer |-> FALSE]
    ELSE IF handle.parentRoute # NullRoute /\ handle.parentRoute # r
    THEN [heap |-> IF S.nodes[handle.node].route = handle.parentRoute
                   THEN HeapRemove(S, handle.parentRoute,
                                    S.nodes[handle.node].idx)
                   ELSE S,
          transfer |-> TRUE]
    ELSE [heap |-> S, transfer |-> FALSE]

\* complete_node_transfer(route_resource, node_resource, transfer), as
\* [routes, handle].
CompleteNodeTransfer(rs, r, handle, transfer) ==
    LET n == handle.node
        old == handle.parentRoute
        at == IF old = NullRoute THEN 0 ELSE FirstIndex(rs[old].ownedNodes, n)
        owners ==
            IF handle.owned
            THEN [rs EXCEPT ![r].ownedNodes = Append(@, n)]
            ELSE IF transfer /\ old # NullRoute /\ at # 0
            THEN [[rs EXCEPT ![r].ownedNodes = Append(@, n)]
                      EXCEPT ![old].ownedNodes = RemoveAt(rs[old].ownedNodes, at)]
            ELSE rs
    IN  [routes |-> owners,
         handle |-> [node |-> n, owned |-> FALSE, parentRoute |-> r]]

\* The ownedNodes of route r without those that are in the node list of
\* route other, and those taken out.
Kept(rs, r, other) ==
    SelectSeq(rs[r].ownedNodes, LAMBDA n : n \notin Range(rs[other].nodes))
Moved(rs, r, other) ==
    SelectSeq(rs[r].ownedNodes, LAMBDA n : n \in Range(rs[other].nodes))

\* reconcile_route_ownership_impl(route1, route2, owned1, owned2).
ReconcileRouteOwnership(rs, r1, r2) ==
    LET toMoveTo2 == Moved(rs, r1, r2)
        a == [rs EXCEPT ![r1].ownedNodes = Kept(rs, r1, r2)]
        toMoveTo1 == Moved(a, r2, r1)
        b == [a EXCEPT ![r2].ownedNodes = Kept(a, r2, r1)]
        c == [b EXCEPT ![r2].ownedNodes = @ \o toMoveTo2]
    IN  [c EXCEPT ![r1].ownedNodes = @ \o toMoveTo1]

Handles == 1..Len(nodeHandles)
RouteResources == 1..Len(searchRoutes)
TheHeap == Heap(searchNodes, searchRoutes)

\* create_search_node_nif: a new node owned by its node resource.
CreateSearchNode ==
    /\ Len(searchNodes) < MaxSearchNodes
    /\ Len(nodeHandles) < MaxNodeHandles
    /\ searchNodes' = Append(searchNodes, [route |-> NullRoute, idx |-> 0])
    /\ nodeHandles' = Append(nodeHandles,
                             [node |-> Len(searchNodes) + 1, owned |-> TRUE,
                              parentRoute |-> NullRoute])
    /\ UNCHANGED searchRoutes

\* make_search_route_nif with numVisits visits (create_search_route_nif is
\* the case of none): the route owns a new node for each visit.
MakeSearchRoute(numVisits) ==
    /\ Len(searchRoutes) < MaxSearchRoutes
    /\ Len(searchNodes) + numVisits <= MaxSearchNodes
    /\ LET r == Len(searchRoutes) + 1
           fresh == [k \in 1..numVisits |-> Len(searchNodes) + k]
       IN  /\ searchNodes' = searchNodes \o
                                [k \in 1..numVisits |-> [route |-> r, idx |-> k]]
           /\ searchRoutes' = Append(searchRoutes,
                                     [nodes |-> fresh, ownedNodes |-> fresh])
    /\ UNCHANGED nodeHandles

\* search_route_get_node_nif(route, idx) for a client of the route.
SearchRouteGetNode(r, idx) ==
    /\ Len(nodeHandles) < MaxNodeHandles
    /\ idx \in 1..Len(searchRoutes[r].nodes)
    /\ nodeHandles' = Append(nodeHandles,
                             [node |-> searchRoutes[r].nodes[idx],
                              owned |-> FALSE, parentRoute |-> r])
    /\ UNCHANGED <<searchNodes, searchRoutes>>

\* The body shared by search_route_append_nif and search_route_insert_nif:
\* idx is where Route::insert puts the node once prepare_node_transfer ran.
TransferInto(r, h, idx) ==
    LET handle == nodeHandles[h]
        prepared == PrepareNodeTransfer(TheHeap, r, handle)
        added == HeapInsert(prepared.heap, r, idx, handle.node)
        done == CompleteNodeTransfer(added.routes, r, handle, prepared.transfer)
    IN  /\ searchNodes' = added.nodes
        /\ searchRoutes' = done.routes
        /\ nodeHandles' = [nodeHandles EXCEPT ![h] = done.handle]

\* The node list of route r once prepare_node_transfer ran for h.
PreparedList(r, h) ==
    PrepareNodeTransfer(TheHeap, r, nodeHandles[h]).heap.routes[r].nodes

\* search_route_append_nif(route, node).
SearchRouteAppend(r, h) ==
    TransferInto(r, h, Len(PreparedList(r, h)) + 1)

\* search_route_insert_nif(route, idx, node).
SearchRouteInsert(r, idx, h) ==
    /\ idx \in 1..(Len(PreparedList(r, h)) + 1)
    /\ TransferInto(r, h, idx)

\* search_route_remove_nif(route, idx).
SearchRouteRemove(r, idx) ==
    /\ idx \in 1..Len(searchRoutes[r].nodes)
    /\ LET S == HeapRemove(TheHeap, r, idx)
       IN  searchNodes' = S.nodes /\ searchRoutes' = S.routes
    /\ UNCHANGED nodeHandles

\* search_route_clear_nif(route).
SearchRouteClear(r) ==
    /\ searchRoutes[r].nodes # <<>>
    /\ LET S == HeapClear(TheHeap, r)
       IN  searchNodes' = S.nodes /\ searchRoutes' = S.routes
    /\ UNCHANGED nodeHandles

\* The ownership part of search_route_swap_nif, as [routes, first, second].
SwapOwnership(rs, first, second) ==
    LET fp == first.parentRoute
        sp == second.parentRoute
        standalone(hd) == [hd EXCEPT !.owned = TRUE, !.parentRoute = NullRoute]
        adopted(hd, r) == [hd EXCEPT !.owned = FALSE, !.parentRoute = r]
        \* the route takes node `take` and gives up node `give`
        exchanged(r, take, give) ==
            LET pushed == Append(rs[r].ownedNodes, take)
                at == FirstIndex(pushed, give)
            IN  [rs EXCEPT ![r].ownedNodes =
                    IF at = 0 THEN pushed ELSE RemoveAt(pushed, at)]
    IN  IF fp = sp
        THEN [routes |-> rs, first |-> first, second |-> second]
        ELSE IF fp # NullRoute /\ sp = NullRoute /\ second.owned
        THEN [routes |-> exchanged(fp, second.node, first.node),
              first |-> standalone(first), second |-> adopted(second, fp)]
        ELSE IF sp # NullRoute /\ fp = NullRoute /\ first.owned
        THEN [routes |-> exchanged(sp, first.node, second.node),
              first |-> adopted(first, sp), second |-> standalone(second)]
        ELSE IF fp # NullRoute /\ sp # NullRoute
        THEN LET fAt == FirstIndex(rs[fp].ownedNodes, first.node)
                 a == IF fAt = 0 THEN rs
                      ELSE [rs EXCEPT ![fp].ownedNodes = RemoveAt(@, fAt)]
                 sAt == FirstIndex(a[sp].ownedNodes, second.node)
                 b == IF sAt = 0 THEN a
                      ELSE [a EXCEPT ![sp].ownedNodes = RemoveAt(@, sAt)]
                 c == IF fAt = 0 THEN b
                      ELSE [b EXCEPT ![sp].ownedNodes = Append(@, first.node)]
                 d == IF sAt = 0 THEN c
                      ELSE [c EXCEPT ![fp].ownedNodes = Append(@, second.node)]
             IN  [routes |-> d,
                  first |-> [first EXCEPT !.parentRoute = sp],
                  second |-> [second EXCEPT !.parentRoute = fp]]
        ELSE [routes |-> rs, first |-> first, second |-> second]

\* search_route_swap_nif(first, second).
SearchRouteSwap(h1, h2) ==
    LET first == nodeHandles[h1]
        second == nodeHandles[h2]
        S == HeapSwap(TheHeap, first.node, second.node)
        own == SwapOwnership(S.routes, first, second)
    IN  /\ h1 # h2
        /\ searchNodes' = S.nodes
        /\ searchRoutes' = own.routes
        /\ nodeHandles' = [nodeHandles EXCEPT ![h1] = own.first,
                                              ![h2] = own.second]

\* U and V can be handed to apply(U, V): both are in a route.
CanApply(h1, h2) ==
    LET U == nodeHandles[h1].node
        V == nodeHandles[h2].node
    IN  /\ U # V
        /\ searchNodes[U].route # NullRoute /\ searchNodes[V].route # NullRoute

\* exchange10_apply_nif(op, u, v).
Exchange10Apply(h1, h2) ==
    LET u == nodeHandles[h1]
        v == nodeHandles[h2]
        S == HeapMoveAfter(TheHeap, u.node, v.node)
    IN  /\ CanApply(h1, h2)
        /\ searchNodes' = S.nodes
        /\ searchRoutes' =
              IF u.parentRoute # NullRoute /\ v.parentRoute # NullRoute
              THEN ReconcileRouteOwnership(S.routes, u.parentRoute,
                                           v.parentRoute)
              ELSE S.routes
        /\ UNCHANGED nodeHandles

\* The sizes of the Exchange<N, M> operators of the binding.
ExchangeSizes ==
    {<<1, 0>>, <<2, 0>>, <<1, 1>>, <<2, 1>>, <<2, 2>>,
     <<3, 0>>, <<3, 1>>, <<3, 2>>, <<3, 3>>}

\* The N nodes from U on and the M nodes from V on can be handed to
\* Exchange<N, M>::apply: they are clients of their routes, and in one route
\* the two segments neither overlap nor touch.
CanExchange(N, M, h1, h2) ==
    IF ~CanApply(h1, h2) THEN FALSE
    ELSE LET U == searchNodes[nodeHandles[h1].node]
             V == searchNodes[nodeHandles[h2].node]
         IN  /\ U.idx + N - 1 <= Len(searchRoutes[U.route].nodes)
             /\ M = 0 \/ V.idx + M - 1 <= Len(searchRoutes[V.route].nodes)
             /\ U.route = V.route =>
                    IF M = 0 THEN V.idx < U.idx \/ V.idx >= U.idx + N
                    ELSE U.idx + N < V.idx \/ V.idx + M < U.idx

\* The reconciliation of the apply calls that take two node resources.
ReconciledByHandles(S, u, v) ==
    IF u.parentRoute # NullRoute /\ v.parentRoute # NullRoute
    THEN ReconcileRouteOwnership(S.routes, u.parentRoute, v.parentRoute)
    ELSE S.routes

\* exchange11_apply_nif(op, u, v) and the like for the other sizes.
ExchangeApply(N, M, h1, h2) ==
    LET u == nodeHandles[h1]
        v == nodeHandles[h2]
        S == HeapExchange(TheHeap, N, M, u.node, v.node)
    IN  /\ CanExchange(N, M, h1, h2)
        /\ searchNodes' = S.nodes
        /\ searchRoutes' = ReconciledByHandles(S, u, v)
        /\ UNCHANGED nodeHandles

\* swap_tails_apply_nif(op, u, v).
SwapTailsApply(h1, h2) ==
    LET u == nodeHandles[h1]
        v == nodeHandles[h2]
        S == HeapSwapTails(TheHeap, u.node, v.node)
    IN  /\ IF CanApply(h1, h2)
           THEN searchNodes[u.node].route # searchNodes[v.node].route
           ELSE FALSE
        /\ searchNodes' = S.nodes
        /\ searchRoutes' = ReconciledByHandles(S, u, v)
        /\ UNCHANGED nodeHandles

\* swap_star_apply_nif(op, route1, route2), after an evaluate that found a
\* move.
SwapStarApply(r1, r2) ==
    /\ r1 # r2
    /\ \E iU \in 1..Len(searchRoutes[r1].nodes) :
       \E iV \in 1..Len(searchRoutes[r2].nodes) :
       \E toU \in 1..Len(searchRoutes[r1].nodes) :
       \E toV \in 1..Len(searchRoutes[r2].nodes) :
          LET S == HeapSwapStar(TheHeap, r1, r2, iU, iV, toU, toV)
          IN  /\ searchNodes' = S.nodes
              /\ searchRoutes' = ReconcileRouteOwnership(S.routes, r1, r2)
    /\ UNCHANGED nodeHandles

\* relocate_with_depot_apply_nif(op, u, v).
RelocateWithDepotApply(h1, h2) ==
    LET S == HeapMoveAfter(TheHeap, nodeHandles[h1].node, nodeHandles[h2].node)
    IN  /\ CanApply(h1, h2)
        /\ searchNodes' = S.nodes
        /\ searchRoutes' = S.routes
        /\ UNCHANGED nodeHandles

\* swap_routes_apply_nif(op, route1, route2).
SwapRoutesApply(r1, r2) ==
    LET S == HeapSwapRoutes(TheHeap, r1, r2)
    IN  /\ r1 # r2
        /\ searchRoutes[r1].nodes \o searchRoutes[r2].nodes # <<>>
        /\ searchNodes' = S.nodes
        /\ searchRoutes' = ReconcileRouteOwnership(S.routes, r1, r2)
        /\ UNCHANGED nodeHandles

driver == <<inst, setup, routes, nodes, cached, promising,
            lastTestedNodes, lastTestedRoutes, lastUpdated, numUpdates,
            searchCompleted, pc, op, exhaustive, fr, input, output, runs,
            lastMove, lastChange, seen, nbArgs, nbResult, nifCall, nifResult>>

\* The holders of node n: the node resources with owned = true and the
\* entries of the ownedNodes lists that point to it.
OwningHandles(n) ==
    {h \in Handles : nodeHandles[h].owned /\ nodeHandles[h].node = n}
OwningEntries(n) ==
    {e \in RouteResources \X (1..Len(searchNodes)) :
        /\ e[2] <= Len(searchRoutes[e[1]].ownedNodes)
        /\ searchRoutes[e[1]].ownedNodes[e[2]] = n}
NumOwners(n) == Cardinality(OwningHandles(n)) + Cardinality(OwningEntries(n))

\* Every node has one holder: it is deleted once, by that holder.
OwnedOnce == \A n \in 1..Len(searchNodes) : NumOwners(n) = 1

\* A call of the binding on a coherent heap whose nodes have one holder
\* each; the driver is not involved.  Past a heap that is not so, a call
\* may read a deleted node.
Called ==
    /\ Coherent(TheHeap) /\ OwnedOnce
    /\ UNCHANGED <<driver, rngs, rngCalls, perturbationManagers>>

CreateNodeCall == Called /\ CreateSearchNode
MakeRouteCall == Called /\ \E k \in 0..MaxVisits : MakeSearchRoute(k)
GetNodeCall ==
    Called /\ \E r \in RouteResources : \E idx \in 1..MaxSearchNodes :
                 SearchRouteGetNode(r, idx)
AppendCall ==
    Called /\ \E r \in RouteResources : \E h \in Handles :
                 SearchRouteAppend(r, h)
InsertCall ==
    Called /\ \E r \in RouteResources : \E h \in Handles :
                 \E idx \in 1..MaxSearchNodes : SearchRouteInsert(r, idx, h)
RemoveCall ==
    Called /\ \E r \in RouteResources : \E idx \in 1..MaxSearchNodes :
                 SearchRouteRemove(r, idx)
ClearCall == Called /\ \E r \in RouteResources : SearchRouteClear(r)
SwapCall == Called /\ \E h1, h2 \in Handles : SearchRouteSwap(h1, h2)
Exchange10Call == Called /\ \E h1, h2 \in Handles : Exchange10Apply(h1, h2)
ExchangeCall ==
    Called /\ \E size \in ExchangeSizes \ {<<1, 0>>} : \E h1, h2 \in Handles :
                 ExchangeApply(size[1], size[2], h1, h2)
SwapTailsCall == Called /\ \E h1, h2 \in Handles : SwapTailsApply(h1, h2)
SwapStarCall ==
    Called /\ \E r1, r2 \in RouteResources : SwapStarApply(r1, r2)
RelocateWithDepotCall ==
    Called /\ \E h1, h2 \in Handles : RelocateWithDepotApply(h1, h2)
SwapRoutesCall ==
    Called /\ \E r1, r2 \in RouteResources : SwapRoutesApply(r1, r2)

ResInit ==
    /\ DriverInit
    /\ inst = 1
    /\ clientOrder = <<1, 2, 3>>
    /\ nbArgs = NbIdle
    /\ nbResult = <<>>
    /\ nifCall = NifIdle
    /\ nifResult = <<>>
    /\ NoResources

ResNext ==
    \/ CreateNodeCall
    \/ MakeRouteCall
    \/ GetNodeCall
    \/ AppendCall
    \/ InsertCall
    \/ RemoveCall
    \/ ClearCall
    \/ SwapCall
    \/ Exchange10Call
    \/ ExchangeCall
    \/ SwapTailsCall
    \/ RelocateWithDepotCall
    \/ SwapStarCall
    \/ SwapRoutesCall

ResSpec == ResInit /\ [][ResNext]_vars

\* C34: after any sequence of calls on the node and route resources, every
\* heap node has exactly one holder, a node resource with owned = true or
\* one entry of one route resource's ownedNodes; never two and never none.
C34EveryNodeOwnedOnce ==
    \A n \in 1..Len(searchNodes) : NumOwners(n) = 1

\* Every client in the node list of a route resource is in the ownedNodes
\* of that resource.
ListedAreOwned ==
    \A r \in RouteResources :
        Range(searchRoutes[r].nodes) \subseteq Range(searchRoutes[r].ownedNodes)

\* An operator apply call that finds every route owning the nodes it lists
\* leaves it so.
ApplyKeepsOwners ==
    ((Exchange10Call \/ ExchangeCall \/ SwapTailsCall
        \/ RelocateWithDepotCall \/ SwapStarCall \/ SwapRoutesCall)
        /\ ListedAreOwned)
    => ListedAreOwned'

\* C35: after an operator apply call that moves nodes between two route
\* resources, every client in the node list of a route is owned by the
\* ownedNodes of that same route resource.
C35ApplyReconcilesOwners ==
    [][ApplyKeepsOwners]_vars

\* After the call for route r and node resource h the node is in the node
\* list of r and of no other route, and the parentRoute of h is r.
MovedInto(r, h) ==
    LET n == nodeHandles[h].node
    IN  /\ n \in Range(searchRoutes'[r].nodes)
        /\ \A o \in RouteResources \ {r} : n \notin Range(searchRoutes'[o].nodes)
        /\ nodeHandles'[h].parentRoute = r

\* A call of search_route_append or search_route_insert moves the node
\* into the target route.
TransferMovesNode ==
    \A r \in RouteResources : \A h \in Handles :
        (Called /\ (\/ SearchRouteAppend(r, h)
                    \/ \E idx \in 1..MaxSearchNodes : SearchRouteInsert(r, idx, h)))
        => MovedInto(r, h)

\* C36: after search_route_append or search_route_insert the node is a
\* member of exactly one route, the target, and the parentRoute of the
\* handle is the target, for every handle, also one obtained before the
\* node was moved by another handle or by an operator apply.
C36TransferMovesNode ==
    [][TransferMovesNode]_vars

(***************************************************************************)
(* The RNG resources.  RandomNumberGenerator is a xorshift generator over  *)
(* four words; the words have RngBits bits here and the shifts are scaled  *)
(* to that width.                                                          *)
(***************************************************************************)
RngBits == 2
MaxRngs == 3
MaxHigh == 3
\* The largest argument of create_perturbation_manager and the number of
\* PerturbationManager resources.
MaxParam == 1
MaxManagers == 1
\* The number of perturbation_manager_shuffle calls.
MaxShuffles == 1

RngModulus == 2 ^ RngBits
RngMax == RngModulus - 1
Words == 0..RngMax

RECURSIVE BitXor(_, _)
\* a ^ b on naturals.
BitXor(a, b) ==
    IF a = 0 THEN b
    ELSE IF b = 0 THEN a
    ELSE ((a + b) % 2) + 2 * BitXor(a \div 2, b \div 2)

\* a << 1 and a >> 1 on a word.
Shl(a) == (2 * a) % RngModulus
Shr(a) == a \div 2

\* RandomNumberGenerator::operator()(): the state after the draw and the
\* word drawn.
RngDraw(state) ==
    LET t1 == BitXor(state[4], Shl(state[4]))
        t2 == BitXor(t1, Shr(t1))
        s == state[1]
        word == BitXor(BitXor(t2, s), Shr(s))
    IN  [state |-> <<word, s, state[2], state[3]>>, value |-> word]

\* static_cast<uint32_t>(high).
Truncated(high) == high % RngModulus

\* The value a call returns from the word drawn: the word itself, rand()'s
\* word / max as a fraction, randint(high)'s word % high.
RngValue(name, word, high) ==
    IF name = "rng_call" THEN <<word>>
    ELSE IF name = "rng_rand" THEN <<word, RngMax>>
    ELSE <<word % Truncated(high)>>

\* The calls of perturbation_manager_shuffle so far, and those on RNG
\* resource i.
AllShuffles == {c \in rngCalls : c.name = "perturbation_manager_shuffle"}
Shuffles(i) == {c \in AllShuffles : c.rng = i}
\* The number of times resource i was advanced in place.
Epoch(i) == Cardinality(Shuffles(i))

\* A variant that draws from the generator of the resource passed in and
\* returns a copy of it.
RngNifInPlace(rs, i, name, high) ==
    LET drawn == RngDraw(rs[i])
    IN  [rngs |-> Append([rs EXCEPT ![i] = drawn.state], drawn.state),
         value |-> RngValue(name, drawn.value, high)]

\* rng_call_nif, rng_rand_nif, rng_randint_nif on resource i: a new
\* resource is made from a copy of the state and the draw is made from the
\* new resource.
RngNif(rs, i, name, high) ==
    LET drawn == RngDraw(rs[i])
    IN  [rngs |-> Append(rs, drawn.state),
         value |-> RngValue(name, drawn.value, high)]

\* The call returns; it is recorded with the resource passed, the value,
\* the resource returned and the state that resource is returned in.
RngReturns(i, name, high) ==
    LET result == RngNif(rngs, i, name, high)
    IN  /\ Len(rngs) < MaxRngs
        /\ rngs' = result.rngs
        /\ rngCalls' = rngCalls \cup
              {[name |-> name, rng |-> i, high |-> high,
                value |-> result.value, new |-> Len(result.rngs),
                state |-> result.rngs[Len(result.rngs)],
                epoch |-> Epoch(i)]}
        /\ UNCHANGED <<driver, searchNodes, searchRoutes, nodeHandles,
                       perturbationManagers>>

RngCall == \E i \in DOMAIN rngs : RngReturns(i, "rng_call", 0)
RngRand == \E i \in DOMAIN rngs : RngReturns(i, "rng_rand", 0)
\* randint(high) is word % high: the call is made with a high that is not
\* 0 as a 32-bit number.
RngRandint ==
    \E i \in DOMAIN rngs : \E high \in 1..(RngModulus + MaxHigh) :
        Truncated(high) # 0 /\ RngReturns(i, "rng_randint", high)

\* PerturbationManager(params): numPerturbations_ starts at the smallest
\* number.
NewManager(lo, hi) ==
    [minPerturbations |-> lo, maxPerturbations |-> hi,
     numPerturbations |-> lo]

\* create_perturbation_manager_nif(min_perturbations, max_perturbations);
\* it throws when min_perturbations > max_perturbations.
CreatePerturbationManager ==
    \E lo, hi \in 0..MaxParam :
        /\ lo <= hi
        /\ Len(perturbationManagers) < MaxManagers
        /\ perturbationManagers' =
              Append(perturbationManagers, NewManager(lo, hi))
        /\ UNCHANGED <<driver, searchNodes, searchRoutes, nodeHandles, rngs,
                       rngCalls>>

\* PerturbationManager::shuffle(rng): the new number of perturbations is
\* minPerturbations + rng.randint(maxPerturbations - minPerturbations + 1).
Reshuffled(pm, word) ==
    [pm EXCEPT !.numPerturbations =
        pm.minPerturbations
          + (word % (pm.maxPerturbations - pm.minPerturbations + 1))]

\* perturbation_manager_shuffle_nif(pm, rng): the draw is made from the
\* generator of the RNG resource passed in, which is advanced in place.
PerturbationManagerShuffle ==
    \E m \in DOMAIN perturbationManagers : \E i \in DOMAIN rngs :
        LET drawn == RngDraw(rngs[i])
            pm == Reshuffled(perturbationManagers[m], drawn.value)
        IN  /\ Cardinality(AllShuffles) < MaxShuffles
            /\ rngs' = [rngs EXCEPT ![i] = drawn.state]
            /\ perturbationManagers' =
                  [perturbationManagers EXCEPT ![m] = pm]
            /\ rngCalls' = rngCalls \cup
                  {[name |-> "perturbation_manager_shuffle", rng |-> i,
                    high |-> pm.maxPerturbations - pm.minPerturbations + 1,
                    value |-> <<pm.numPerturbations>>, new |-> i,
                    state |-> drawn.state, epoch |-> Epoch(i) + 1]}
            /\ UNCHANGED <<driver, searchNodes, searchRoutes, nodeHandles>>

\* One RNG resource, made by create_rng_from_state_nif.
RngInit ==
    /\ DriverInit
    /\ inst = 1
    /\ clientOrder = <<1, 2, 3>>
    /\ nbArgs = NbIdle
    /\ nbResult = <<>>
    /\ nifCall = NifIdle
    /\ nifResult = <<>>
    /\ searchNodes = <<>>
    /\ searchRoutes = <<>>
    /\ nodeHandles = <<>>
    /\ rngs \in {<<s>> : s \in Words \X Words \X Words \X Words}
    /\ rngCalls = {}
    /\ perturbationManagers = <<>>

RngNext ==
    \/ RngCall \/ RngRand \/ RngRandint
    \/ CreatePerturbationManager \/ PerturbationManagerShuffle

RngSpec == RngInit /\ [][RngNext]_vars

\* The calls of rng_call, rng_rand and rng_randint.
RngNifCalls(calls) ==
    {c \in calls : c.name \in {"rng_call", "rng_rand", "rng_randint"}}

\* A call of the three that returns leaves every resource there was as it
\* was and returns a new resource that holds the state of the resource
\* passed after one draw.
RngCallStep ==
    \A c \in RngNifCalls(rngCalls' \ rngCalls) :
        /\ \A i \in DOMAIN rngs : rngs'[i] = rngs[i]
        /\ c.new \in DOMAIN rngs' \ DOMAIN rngs
        /\ rngs'[c.new] = RngDraw(rngs[c.rng]).state
        /\ c.state = rngs'[c.new]

\* Two calls of the same NIF on the same resource, with the same high and
\* with no perturbation_manager_shuffle on the resource between them,
\* returned the same value and resources with the same state.
RngRepeatable ==
    \A c, d \in RngNifCalls(rngCalls) :
        (c.name = d.name /\ c.rng = d.rng /\ c.high = d.high
           /\ c.epoch = d.epoch)
        => (c.value = d.value /\ c.state = d.state)

\* C37: rng_call, rng_rand and rng_randint leave the state of the RNG
\* resource passed to them unchanged and return a new RNG resource holding
\* the advanced state; calling one of them twice on the same resource, in
\* the state the first call left it in, returns the same value and the
\* same new state.
C37RngCallsArePure ==
    [][RngCallStep]_vars /\ []RngRepeatable

\* One of the NIFs was called twice on the first resource, after
\* perturbation_manager_shuffle advanced that resource in place.
C37Witness ==
    \E c, d \in RngNifCalls(rngCalls) :
        /\ c.name = d.name /\ c.rng = 1 /\ d.rng = 1 /\ c.high = d.high
        /\ c.epoch = d.epoch /\ c.epoch > 0
        /\ c.new # d.new
        /\ c.state # rngs[1]
====
